---------------------------- MODULE Spec2Model ----------------------------
(***************************************************************************)
(* A model of the smart-proxy core: the per-target accessibility tracker   *)
(* (src/src/tracker.rs), the routing engine (src/src/routing.rs), the      *)
(* success validator (src/src/validator.rs) and the request handler of the *)
(* proxy (src/src/proxy.rs).                                               *)
(*                                                                         *)
(* Numbers.  The f64 fields success_rate and avg_response_time are kept as *)
(* exact reduced fractions <<num, den>>.  Within the bounds used here the  *)
(* fractions that are compared differ by far more than one unit in the     *)
(* last place of an f64, so every comparison the code makes on the rounded *)
(* values has the outcome computed here on the exact ones.  Where the      *)
(* value of the average itself matters, in SpecEwma, avg_response_time is  *)
(* kept as the f64 it is, with the rounding of every operation.            *)
(* Option<T> is a sequence of length at most one: <<>> is None.            *)
(* Instant::now() is the value of a logical clock that every update       *)
(* advances.                                                               *)
(***************************************************************************)
EXTENDS Integers, Sequences, FiniteSets, TLC

VARIABLES
    metrics,                 \* tracker.metrics: target -> (runway id -> TargetMetrics)
    success_rate_window,     \* tracker.success_rate_window
    success_rate_threshold,  \* tracker.success_rate_threshold, a fraction
    clock,                   \* the monotonic clock read by Instant::now()
    mode,                    \* routing engine: mode
    round_robin_index,       \* routing engine: target -> cursor
    call,                    \* caller -> the select_runway call it is executing
    request,                 \* proxy: handler -> the client request it is serving
    updates,                 \* history: <<target, runway id>> -> <<n, u>> of each update
    nCalls,                  \* history: select_runway calls started
    rrLog,                   \* history: target -> round-robin selections made
    modeSet,                 \* history: the mode the last set_mode was given
    tasks,                   \* tracker clients: task -> the tracker call it is executing
    versions,                \* history: <<target, runway id>> -> the records updates stored
    monitor,                 \* health monitor: running flag, position in start(), cycle locals
    resolver,                \* DNS resolver: cache, wall clock, the resolve call in progress
    manager                  \* runway manager: configuration and the discovered runways

trackerVars == <<metrics, success_rate_window, success_rate_threshold, clock>>
routingVars == <<mode, round_robin_index>>
proxyVars == <<request>>
historyVars == <<updates, rrLog, modeSet>>
serviceVars == <<tasks, versions, monitor, resolver, manager>>
vars == <<metrics, success_rate_window, success_rate_threshold, clock,
          mode, round_robin_index, call, request, updates, nCalls, rrLog, modeSet,
          tasks, versions, monitor, resolver, manager>>

-----------------------------------------------------------------------------
(* Bounds and input sets *)

MaxAttempts == 6            \* updates of one run of SpecTracker
MaxAccessUpdates == 5       \* updates of one run of SpecAccess
MaxRouteUpdates == 2        \* updates of one run of SpecRouting
MaxRouteSelects == 2        \* select_runway calls of one run of SpecRouting
MaxRoundRobinUpdates == 3   \* updates of one run of SpecRoundRobin
MaxSelects == 7             \* select_runway calls of one run of SpecRoundRobin
MaxLatencyUpdates == 3      \* updates of one run of SpecLatency
MaxLatencySelects == 2      \* select_runway calls of one run of SpecLatency
MaxProxyClock == 2          \* SpecProxy: updates after which other tasks make none
MaxRequests == 1            \* forwarded requests of one run of SpecProxy

Targets == {"t1", "t2"}
RunwayIds == {"r1", "r2", "r3"}
Callers == {"c1"}
WindowChoices == {0, 1, 3, 5}
DefaultThreshold == <<1, 2>>   \* success_rate_threshold 0.5, the default of config.rs
StrictThreshold == <<2, 3>>
ResponseTimes == {1, 2}     \* whole seconds
LatencyTimes == {0, 1, 2}   \* whole seconds, 0 for a reply within the clock's resolution
\* <<network_success, user_success, response time>> of the updates of SpecRouting
RouteEvents ==
    {<<TRUE, TRUE, 1>>, <<TRUE, TRUE, 2>>, <<TRUE, FALSE, 1>>, <<FALSE, FALSE, 1>>}

-----------------------------------------------------------------------------
(* Fractions *)

RECURSIVE Gcd(_, _)
Gcd(a, b) == IF b = 0 THEN a ELSE Gcd(b, a % b)

Frac(n, d) == IF n = 0 THEN <<0, 1>> ELSE <<n \div Gcd(n, d), d \div Gcd(n, d)>>

FracGeq(x, y) == x[1] * y[2] >= y[1] * x[2]
FracLess(x, y) == x[1] * y[2] < y[1] * x[2]
FracIsZero(x) == x[1] = 0

-----------------------------------------------------------------------------
(* f64 *)

(* A binary64 is <<sign, exponent, fraction>>, the three fields of an f64: *)
(* the sign bit, the biased exponent and the 52 bits behind the leading 1  *)
(* of the significand, first bit first.  The numbers here are 0 or        *)
(* positive and normal.  A natural number that does not fit an integer is *)
(* the sequence of its bits, first bit first.                             *)

Binary64Zero == <<0, 0, [i \in 1..52 |-> 0]>>
IsBinary64(x) == Len(x) = 3

Zeros(k) == [i \in 1..k |-> 0]

Pow2 ==
    <<1, 2, 4, 8, 16, 32, 64, 128, 256, 512, 1024, 2048, 4096, 8192, 16384, 32768,
      65536, 131072, 262144, 524288, 1048576, 2097152, 4194304, 8388608,
      16777216, 33554432, 67108864, 134217728, 268435456, 536870912, 1073741824>>

\* the bits of the sequence behind its leading zeros
Stripped(bits) ==
    LET ones == {i \in DOMAIN bits : bits[i] = 1}
    IN  IF ones = {} THEN <<>>
        ELSE SubSeq(bits, CHOOSE i \in ones : \A j \in ones : i <= j, Len(bits))

\* the bits of the digits of base 2^width, first digit first
DigitBits(digits, width) ==
    [i \in 1..(width * Len(digits)) |->
        (digits[((i - 1) \div width) + 1] \div Pow2[width - ((i - 1) % width)]) % 2]

Bits(n) == Stripped(DigitBits(<<n>>, 30))

\* the number whose binary digits are the small sums cols[lo..hi]
RECURSIVE Weighted(_, _, _)
Weighted(cols, lo, hi) ==
    IF lo > hi THEN 0 ELSE 2 * Weighted(cols, lo, hi - 1) + cols[hi]

\* the digits of base 4096, first digit first, of the number whose digits
\* from the last one on are the sums limbs[j], limbs[j + 1], ...
RECURSIVE Normalized(_, _, _)
Normalized(limbs, j, carry) ==
    IF j > Len(limbs) THEN <<carry>>
    ELSE Append(Normalized(limbs, j + 1, (limbs[j] + carry) \div 4096),
                (limbs[j] + carry) % 4096)

\* the bits of the number whose i-th binary digit, first digit first, is
\* the small sum cols[i]: the digits are summed twelve at a time and the
\* carries passed on from the last twelve
Carried(cols) ==
    LET n == Len(cols)
        limbs == [j \in 1..((n + 11) \div 12) |->
                     Weighted(cols, IF n - 12 * j + 1 < 1 THEN 1 ELSE n - 12 * j + 1,
                              n - 12 * (j - 1))]
    IN  Stripped(DigitBits(Normalized(limbs, 1, 0), 12))

BitsSum(a, b) ==
    LET n == IF Len(a) > Len(b) THEN Len(a) ELSE Len(b)
        pa == Zeros(n - Len(a)) \o a
        pb == Zeros(n - Len(b)) \o b
    IN  Carried([i \in 1..n |-> pa[i] + pb[i]])

BitsProduct(a, b) ==
    LET n == Len(a) + Len(b) - 1
        cols == [k \in 1..n |->
                    Cardinality({i \in DOMAIN a :
                                    /\ k - i + 1 \in DOMAIN b
                                    /\ a[i] = 1
                                    /\ b[k - i + 1] = 1})]
    IN  Carried(cols)

\* the binary64 nearest to bits * 2^scale, a tie going to the even
\* significand; bits has no leading 0
Binary64Rounded(bits, scale) ==
    IF bits = <<>> THEN Binary64Zero
    ELSE LET kept == IF Len(bits) <= 53 THEN bits \o Zeros(53 - Len(bits))
                     ELSE SubSeq(bits, 1, 53)
             rest == IF Len(bits) <= 53 THEN <<>> ELSE SubSeq(bits, 54, Len(bits))
             up == /\ rest # <<>>
                   /\ rest[1] = 1
                   /\ (kept[53] = 1 \/ \E i \in 2..Len(rest) : rest[i] = 1)
             significand == IF up THEN BitsSum(kept, <<1>>) ELSE kept
             carried == IF Len(significand) = 54 THEN 1 ELSE 0
         IN  <<0, scale + Len(bits) - 1 + carried + 1023, SubSeq(significand, 2, 53)>>

Significand(x) == <<1>> \o x[3]
Scale(x) == x[2] - 1023 - 52

\* f64 * f64
Binary64Product(x, y) ==
    IF x = Binary64Zero \/ y = Binary64Zero THEN Binary64Zero
    ELSE Binary64Rounded(BitsProduct(Significand(x), Significand(y)),
                         Scale(x) + Scale(y))

\* f64 + f64
Binary64Sum(x, y) ==
    IF x = Binary64Zero THEN y
    ELSE IF y = Binary64Zero THEN x
    ELSE LET scale == IF Scale(x) < Scale(y) THEN Scale(x) ELSE Scale(y)
         IN  Binary64Rounded(BitsSum(Significand(x) \o Zeros(Scale(x) - scale),
                                     Significand(y) \o Zeros(Scale(y) - scale)),
                             scale)

\* the first k digits of base 256 of r / d behind the point, and what is
\* left of r then; r < d < 2^22
RECURSIVE QuotientDigits(_, _, _)
QuotientDigits(r, d, k) ==
    IF k = 0 THEN <<>>
    ELSE <<(256 * r) \div d>> \o QuotientDigits((256 * r) % d, d, k - 1)

RECURSIVE RemainderAfter(_, _, _)
RemainderAfter(r, d, k) ==
    IF k = 0 THEN r ELSE RemainderAfter((256 * r) % d, d, k - 1)

\* the f64 a decimal literal of the value n / d stands for: the binary64
\* nearest to n / d.  64 bits behind the point and one more bit that tells
\* whether anything follows them decide the rounding of a value above 2^-9.
Binary64Of(n, d) ==
    LET quotient == Bits(n \div d) \o DigitBits(QuotientDigits(n % d, d, 8), 8)
        follows == IF RemainderAfter(n % d, d, 8) # 0 THEN 1 ELSE 0
    IN  Binary64Rounded(Stripped(Append(quotient, follows)), -65)

\* Duration::as_secs_f64 of a whole number of seconds
AsSecsF64(rt) == Binary64Rounded(Bits(rt), 0)

\* the literals 0.7 and 0.3 of line 118
OldWeight == Binary64Of(7, 10)
NewWeight == Binary64Of(3, 10)

\* EwmaBinary64 without the case of the average 0.0
EwmaBinary64Always(avg, rt) ==
    Binary64Sum(Binary64Product(avg, OldWeight),
                Binary64Product(AsSecsF64(rt), NewWeight))

\* update, lines 115-119, in f64
EwmaBinary64(avg, rt) ==
    IF avg = Binary64Zero THEN AsSecsF64(rt)
    ELSE Binary64Sum(Binary64Product(avg, OldWeight),
                     Binary64Product(AsSecsF64(rt), NewWeight))

-----------------------------------------------------------------------------
(* tracker.rs *)

RunwayState == {"Unknown", "Accessible", "PartiallyAccessible", "Inaccessible", "Testing"}

\* TargetMetrics::new
NewMetrics(target, runway_id) ==
    [ target |-> target,
      runway_id |-> runway_id,
      state |-> "Unknown",
      network_success_count |-> 0,
      user_success_count |-> 0,
      failure_count |-> 0,
      partial_success_count |-> 0,
      total_attempts |-> 0,
      avg_response_time |-> <<0, 1>>,
      last_success_time |-> <<>>,
      last_failure_time |-> <<>>,
      consecutive_failures |-> 0,
      recovery_count |-> 0,
      success_rate |-> <<0, 1>>,
      recent_attempts |-> <<>> ]

RECURSIVE CountTrue(_)
CountTrue(s) ==
    IF s = <<>> THEN 0 ELSE (IF Head(s) THEN 1 ELSE 0) + CountTrue(Tail(s))

\* TargetMetrics::update_success_rate
UpdateSuccessRate(m) ==
    IF m.recent_attempts = <<>>
    THEN [m EXCEPT !.success_rate = <<0, 1>>]
    ELSE [m EXCEPT !.success_rate =
              Frac(CountTrue(m.recent_attempts), Len(m.recent_attempts))]

\* PushAttempt trimming one entry too late
PushAttemptLate(m, user_success, window) ==
    LET pushed == Append(m.recent_attempts, user_success)
    IN  [m EXCEPT !.total_attempts = @ + 1,
                  !.recent_attempts =
                      IF Len(pushed) > window + 1 THEN Tail(pushed) ELSE pushed]

\* PushAttempt dropping the newest entry instead of the oldest
PushAttemptDropsNewest(m, user_success, window) ==
    LET pushed == Append(m.recent_attempts, user_success)
    IN  [m EXCEPT !.total_attempts = @ + 1,
                  !.recent_attempts =
                      IF Len(pushed) > window
                      THEN SubSeq(pushed, 1, Len(pushed) - 1) ELSE pushed]

\* update, lines 98-105: count the attempt and push it on the window
PushAttempt(m, user_success, window) ==
    LET pushed == Append(m.recent_attempts, user_success)
    IN  [m EXCEPT !.total_attempts = @ + 1,
                  !.recent_attempts =
                      IF Len(pushed) > window THEN Tail(pushed) ELSE pushed]

\* update, lines 115-119: the moving average of the response time, in f64
\* when the record keeps its average as a binary64
Ewma(avg, rt) ==
    IF IsBinary64(avg) THEN EwmaBinary64(avg, rt)
    ELSE IF FracIsZero(avg) THEN Frac(rt, 1)
    ELSE Frac(7 * avg[1] + 3 * rt * avg[2], 10 * avg[2])

\* ApplyOutcome not counting a partial result as a network success
ApplyOutcomePartialUncounted(m, network_success, user_success, rt, now) ==
    IF network_success /\ user_success
    THEN [m EXCEPT !.network_success_count = @ + 1,
                   !.user_success_count = @ + 1,
                   !.state = "Accessible",
                   !.last_success_time = <<now>>,
                   !.consecutive_failures = 0,
                   !.avg_response_time = Ewma(@, rt)]
    ELSE IF network_success /\ ~user_success
    THEN [m EXCEPT !.partial_success_count = @ + 1,
                   !.state = "PartiallyAccessible"]
    ELSE [m EXCEPT !.failure_count = @ + 1,
                   !.last_failure_time = <<now>>,
                   !.consecutive_failures = @ + 1,
                   !.state = IF m.consecutive_failures + 1 > 3
                             THEN "Inaccessible" ELSE @]

\* ApplyOutcome counting an outright failure as a network success too
ApplyOutcomeFailureCounted(m, network_success, user_success, rt, now) ==
    IF network_success /\ user_success
    THEN [m EXCEPT !.network_success_count = @ + 1,
                   !.user_success_count = @ + 1,
                   !.state = "Accessible",
                   !.last_success_time = <<now>>,
                   !.consecutive_failures = 0,
                   !.avg_response_time = Ewma(@, rt)]
    ELSE IF network_success /\ ~user_success
    THEN [m EXCEPT !.network_success_count = @ + 1,
                   !.partial_success_count = @ + 1,
                   !.state = "PartiallyAccessible"]
    ELSE [m EXCEPT !.failure_count = @ + 1,
                   !.network_success_count = @ + 1,
                   !.last_failure_time = <<now>>,
                   !.consecutive_failures = @ + 1,
                   !.state = IF m.consecutive_failures + 1 > 3
                             THEN "Inaccessible" ELSE @]

\* ApplyOutcome taking the record to Inaccessible at the third failure in a row
ApplyOutcomeThreeFailures(m, network_success, user_success, rt, now) ==
    IF network_success /\ user_success
    THEN [m EXCEPT !.network_success_count = @ + 1,
                   !.user_success_count = @ + 1,
                   !.state = "Accessible",
                   !.last_success_time = <<now>>,
                   !.consecutive_failures = 0,
                   !.avg_response_time = Ewma(@, rt)]
    ELSE IF network_success /\ ~user_success
    THEN [m EXCEPT !.network_success_count = @ + 1,
                   !.partial_success_count = @ + 1,
                   !.state = "PartiallyAccessible"]
    ELSE [m EXCEPT !.failure_count = @ + 1,
                   !.last_failure_time = <<now>>,
                   !.consecutive_failures = @ + 1,
                   !.state = IF m.consecutive_failures + 1 >= 3
                             THEN "Inaccessible" ELSE @]

\* ApplyOutcome ending the streak of failures at a partial result
ApplyOutcomePartialResets(m, network_success, user_success, rt, now) ==
    IF network_success /\ user_success
    THEN [m EXCEPT !.network_success_count = @ + 1,
                   !.user_success_count = @ + 1,
                   !.state = "Accessible",
                   !.last_success_time = <<now>>,
                   !.consecutive_failures = 0,
                   !.avg_response_time = Ewma(@, rt)]
    ELSE IF network_success /\ ~user_success
    THEN [m EXCEPT !.network_success_count = @ + 1,
                   !.partial_success_count = @ + 1,
                   !.consecutive_failures = 0,
                   !.state = "PartiallyAccessible"]
    ELSE [m EXCEPT !.failure_count = @ + 1,
                   !.last_failure_time = <<now>>,
                   !.consecutive_failures = @ + 1,
                   !.state = IF m.consecutive_failures + 1 > 3
                             THEN "Inaccessible" ELSE @]

\* update, lines 107-132: the three cases
ApplyOutcome(m, network_success, user_success, rt, now) ==
    IF network_success /\ user_success
    THEN [m EXCEPT !.network_success_count = @ + 1,
                   !.user_success_count = @ + 1,
                   !.state = "Accessible",
                   !.last_success_time = <<now>>,
                   !.consecutive_failures = 0,
                   !.avg_response_time = Ewma(@, rt)]
    ELSE IF network_success /\ ~user_success
    THEN [m EXCEPT !.network_success_count = @ + 1,
                   !.partial_success_count = @ + 1,
                   !.state = "PartiallyAccessible"]
    ELSE [m EXCEPT !.failure_count = @ + 1,
                   !.last_failure_time = <<now>>,
                   !.consecutive_failures = @ + 1,
                   !.state = IF m.consecutive_failures + 1 > 3
                             THEN "Inaccessible" ELSE @]

\* update, lines 134-139: the recovery check, made on the state just written
CheckRecovery(m, user_success) ==
    IF m.state = "Inaccessible" /\ user_success
    THEN [m EXCEPT !.recovery_count = @ + 1, !.state = "Accessible"]
    ELSE m

\* UpdatedMetrics pushing the attempt on the window twice
UpdatedMetricsPushedTwice(m, network_success, user_success, rt, window, now) ==
    UpdateSuccessRate(
        CheckRecovery(
            ApplyOutcome(PushAttempt(
                             [PushAttempt(m, user_success, window)
                                 EXCEPT !.total_attempts = m.total_attempts],
                             user_success, window),
                         network_success, user_success, rt, now),
            user_success))

\* update, lines 98-141, on the clone of the stored record
UpdatedMetrics(m, network_success, user_success, rt, window, now) ==
    UpdateSuccessRate(
        CheckRecovery(
            ApplyOutcome(PushAttempt(m, user_success, window),
                         network_success, user_success, rt, now),
            user_success))

HasTarget(target) == target \in DOMAIN metrics
HasMetrics(target, runway_id) ==
    HasTarget(target) /\ runway_id \in DOMAIN metrics[target]

\* the entry(..).or_insert_with(..) of lines 91-96
StoredOrNew(target, runway_id) ==
    IF HasMetrics(target, runway_id) THEN metrics[target][runway_id]
    ELSE NewMetrics(target, runway_id)

\* Inserted dropping the other records of the target
InsertedAlone(target, runway_id, m) ==
    [t \in DOMAIN metrics \cup {target} |->
        IF t = target THEN [k \in {runway_id} |-> m] ELSE metrics[t]]

\* DashMap::insert of one record under target
Inserted(target, runway_id, m) ==
    LET inner == IF HasTarget(target) THEN metrics[target] ELSE <<>>
        keys == (IF HasTarget(target) THEN DOMAIN metrics[target] ELSE {})
                    \cup {runway_id}
        innerNew == [k \in keys |-> IF k = runway_id THEN m ELSE inner[k]]
    IN  [t \in DOMAIN metrics \cup {target} |->
            IF t = target THEN innerNew ELSE metrics[t]]

EventsOf(target, runway_id) ==
    IF <<target, runway_id>> \in DOMAIN updates
    THEN updates[<<target, runway_id>>] ELSE <<>>

Logged(target, runway_id, ev) ==
    [p \in DOMAIN updates \cup {<<target, runway_id>>} |->
        IF p = <<target, runway_id>>
        THEN Append(EventsOf(target, runway_id), ev) ELSE updates[p]]

\* TargetAccessibilityTracker::update.  The guard of the target's shard is
\* held from line 91 to the end of the function and the body never awaits,
\* so the whole read-modify-write is one step.
Update(target, runway_id, network_success, user_success, rt) ==
    /\ metrics' = Inserted(target, runway_id,
                      UpdatedMetrics(StoredOrNew(target, runway_id),
                                     network_success, user_success, rt,
                                     success_rate_window, clock))
    /\ clock' = clock + 1
    /\ updates' = Logged(target, runway_id, <<network_success, user_success>>)
    /\ UNCHANGED <<success_rate_window, success_rate_threshold>>


\* IsAccessibleEntry admitting a partial runway only above the threshold
IsAccessibleEntryStrict(m) ==
    CASE m.state = "Accessible" -> TRUE
      [] m.state = "PartiallyAccessible" ->
            FracLess(success_rate_threshold, m.success_rate)
      [] OTHER -> FALSE

\* get_accessible_runways, lines 152-162: the filter applied to one entry
IsAccessibleEntry(m) ==
    CASE m.state = "Accessible" -> TRUE
      [] m.state = "PartiallyAccessible" ->
            FracGeq(m.success_rate, success_rate_threshold)
      [] OTHER -> FALSE

\* get_accessible_runways, lines 148-164: filter_map over the entries of the
\* target's map, visited in the order the map's iterator yields them
RECURSIVE FilterAccessible(_, _)
FilterAccessible(inner, order) ==
    IF order = <<>> THEN <<>>
    ELSE (IF IsAccessibleEntry(inner[Head(order)]) THEN <<Head(order)>> ELSE <<>>)
             \o FilterAccessible(inner, Tail(order))

\* the orders in which a map with the keys S can be iterated
Orders(S) ==
    {s \in [1..Cardinality(S) -> S] : \A i, j \in DOMAIN s : s[i] = s[j] => i = j}

\* TargetAccessibilityTracker::get_accessible_runways, for one iteration order
AccessibleRunways(target, order) ==
    IF HasTarget(target) THEN FilterAccessible(metrics[target], order) ELSE <<>>

IterationOrders(target) ==
    IF HasTarget(target) THEN Orders(DOMAIN metrics[target]) ELSE {<<>>}

\* TargetAccessibilityTracker::get_metrics
GetMetrics(target, runway_id) ==
    IF HasMetrics(target, runway_id) THEN <<metrics[target][runway_id]>> ELSE <<>>

-----------------------------------------------------------------------------
(* routing.rs *)

RoutingMode == {"Latency", "FirstAccessible", "RoundRobin"}

\* the runways that go through an upstream proxy
ProxiedIds == {"r3", "r5", "r6"}

\* a Runway value: its id, and is_direct (no upstream proxy); the routing
\* engine reads nothing but the id
Runway(id) == [id |-> id, is_direct |-> id \notin ProxiedIds]

Range(s) == {s[i] : i \in DOMAIN s}

RECURSIVE FilterById(_, _)
FilterById(s, keep) ==
    IF s = <<>> THEN <<>>
    ELSE (IF Head(s).id \in keep THEN <<Head(s)>> ELSE <<>>) \o FilterById(Tail(s), keep)

RECURSIVE Reverse(_)
Reverse(s) == IF s = <<>> THEN <<>> ELSE Append(Reverse(Tail(s)), Head(s))

\* AccessibleOf listing the accessible runways of the input last to first
AccessibleOfReversed(runways, accessible_ids) ==
    Reverse(FilterById(runways, Range(accessible_ids)))

\* AccessibleOf keeping every runway of the input
AccessibleOfUnfiltered(runways, accessible_ids) == runways

\* select_runway, lines 50-53: the runways of the input whose id is accessible
AccessibleOf(runways, accessible_ids) == FilterById(runways, Range(accessible_ids))

\* the runways in the order the inventory lists them
Inventory == <<Runway("r1"), Runway("r2"), Runway("r3")>>

\* the runway lists passed to select_runway
InputLists == {<<>>, Inventory, <<Runway("r3"), Runway("r1")>>}

\* the runway lists passed to select_runway in SpecLatency
LatencyLists == {Inventory, <<Runway("r3"), Runway("r2"), Runway("r1")>>}

IdleCall ==
    [ op |-> "none", pc |-> "idle", target |-> "", runways |-> <<>>,
      accessible_ids |-> <<>>, candidates |-> <<>>, mode |-> "", i |-> 0,
      best |-> <<>>, result |-> <<>>,
      seen |-> <<>> ]   \* history: the get_metrics results of select_by_latency

\* SetMode whose write to the mode is lost
SetModeLost(m) ==
    /\ mode' = mode
    /\ modeSet' = m
    /\ UNCHANGED <<trackerVars, round_robin_index, call, nCalls, updates, rrLog, proxyVars, serviceVars>>

\* RoutingEngine::set_mode
SetMode(m) ==
    /\ mode' = m
    /\ modeSet' = m
    /\ UNCHANGED <<trackerVars, round_robin_index, call, nCalls, updates, rrLog, proxyVars, serviceVars>>

\* a caller reads get_accessible_runways(target) on its own
GetAccessibleRunways(c, target) ==
    /\ call[c].pc = "idle"
    /\ \E order \in IterationOrders(target) :
           call' = [call EXCEPT ![c] =
                       [IdleCall EXCEPT !.op = "get_accessible_runways",
                                        !.pc = "done",
                                        !.target = target,
                                        !.accessible_ids = AccessibleRunways(target, order)]]
    /\ UNCHANGED <<trackerVars, routingVars, nCalls, historyVars, proxyVars, serviceVars>>

\* select_runway, lines 44-57: read the accessible ids, intersect with the input
SelectStart(c, target, runways) ==
    /\ call[c].pc = "idle"
    /\ \E order \in IterationOrders(target) :
           LET accessible_ids == AccessibleRunways(target, order)
               candidates == AccessibleOf(runways, accessible_ids)
           IN  call' = [call EXCEPT ![c] =
                   [IdleCall EXCEPT !.op = "select_runway",
                                    !.target = target,
                                    !.runways = runways,
                                    !.accessible_ids = accessible_ids,
                                    !.candidates = candidates,
                                    !.pc = IF accessible_ids = <<>> \/ candidates = <<>>
                                           THEN "done" ELSE "mode"]]
    /\ nCalls' = nCalls + 1
    /\ UNCHANGED <<trackerVars, routingVars, historyVars, proxyVars, serviceVars>>

\* select_runway, lines 59-64: read the mode once and dispatch on it
SelectDispatch(c) ==
    /\ call[c].pc = "mode"
    /\ call' = [call EXCEPT ![c] =
           CASE mode = "Latency" ->
                    [@ EXCEPT !.mode = mode, !.pc = "latency", !.i = 1]
             [] mode = "FirstAccessible" ->
                    [@ EXCEPT !.mode = mode, !.pc = "done",
                              !.result = <<call[c].candidates[1]>>]
             [] mode = "RoundRobin" ->
                    [@ EXCEPT !.mode = mode, !.pc = "round_robin"]]
    /\ UNCHANGED <<trackerVars, routingVars, nCalls, historyVars, proxyVars, serviceVars>>

\* BetterOf replacing best also on an equal average
BetterOfLastTie(best, runway, found) ==
    IF found # <<>> /\ ~FracIsZero(found[1].avg_response_time)
         /\ (best = <<>> \/ ~FracLess(best[1].time, found[1].avg_response_time))
    THEN <<[runway |-> runway, time |-> found[1].avg_response_time]>>
    ELSE best

\* select_by_latency, lines 71-82: the candidate replaces best when its
\* average is positive and strictly below the best one's
BetterOf(best, runway, found) ==
    IF found # <<>> /\ ~FracIsZero(found[1].avg_response_time)
         /\ (best = <<>> \/ FracLess(found[1].avg_response_time, best[1].time))
    THEN <<[runway |-> runway, time |-> found[1].avg_response_time]>>
    ELSE best

\* select_by_latency, lines 85-86
LatencyResult(best, runways) ==
    IF best # <<>> THEN <<best[1].runway>>
    ELSE IF runways # <<>> THEN <<runways[1]>> ELSE <<>>

\* select_by_latency: one turn of the loop, a get_metrics read of the
\* tracker; the turn on the last candidate also returns
SelectLatencyStep(c) ==
    /\ call[c].pc = "latency"
    /\ LET k == call[c]
           runway == k.candidates[k.i]
           found == GetMetrics(k.target, runway.id)
           best == BetterOf(k.best, runway, found)
           seen == Append(k.seen, IF found = <<>> THEN <<>>
                                  ELSE <<found[1].avg_response_time>>)
       IN  call' = [call EXCEPT ![c] =
               IF k.i < Len(k.candidates)
               THEN [@ EXCEPT !.best = best, !.seen = seen, !.i = @ + 1]
               ELSE [@ EXCEPT !.best = best, !.seen = seen, !.pc = "done",
                              !.result = LatencyResult(best, k.candidates)]]
    /\ UNCHANGED <<trackerVars, routingVars, nCalls, historyVars, proxyVars, serviceVars>>

CursorOf(target) ==
    IF target \in DOMAIN round_robin_index THEN round_robin_index[target] ELSE 0

\* select_round_robin, line 96: the runway under the cursor
RoundRobinPick(runways, index) == runways[(index % Len(runways)) + 1]

\* RoundRobinAdvance without the wrap
RoundRobinAdvanceUnwrapped(runways, index) == index + 1

\* RoundRobinAdvance whose write of the cursor is lost
RoundRobinAdvanceLost(runways, index) == index % Len(runways)

\* SelectRoundRobin writing back a map that holds the target's cursor alone
SelectRoundRobinAlone(c) ==
    /\ call[c].pc = "round_robin"
    /\ LET k == call[c]
           index == CursorOf(k.target)
           picked == RoundRobinPick(k.candidates, index)
       IN  /\ call' = [call EXCEPT ![c] = [@ EXCEPT !.pc = "done", !.result = <<picked>>]]
           /\ round_robin_index' =
                  [t \in {k.target} |-> (index + 1) % Len(k.candidates)]
           /\ rrLog' =
                  [t \in DOMAIN rrLog \cup {k.target} |->
                      IF t = k.target
                      THEN Append(IF t \in DOMAIN rrLog THEN rrLog[t] ELSE <<>>,
                                  [candidates |-> k.candidates, selected |-> picked])
                      ELSE rrLog[t]]
    /\ UNCHANGED <<trackerVars, mode, nCalls, updates, modeSet, proxyVars, serviceVars>>

\* select_round_robin, line 97: the cursor written back
RoundRobinAdvance(runways, index) == (index + 1) % Len(runways)

\* select_round_robin: the cursor is read and written under one write lock
SelectRoundRobin(c) ==
    /\ call[c].pc = "round_robin"
    /\ LET k == call[c]
           index == CursorOf(k.target)
       IN  IF k.candidates = <<>>
           THEN /\ call' = [call EXCEPT ![c] = [@ EXCEPT !.pc = "done"]]
                /\ UNCHANGED <<round_robin_index, rrLog>>
           ELSE /\ call' = [call EXCEPT ![c] =
                       [@ EXCEPT !.pc = "done",
                                 !.result = <<RoundRobinPick(k.candidates, index)>>]]
                /\ round_robin_index' =
                       [t \in DOMAIN round_robin_index \cup {k.target} |->
                           IF t = k.target
                           THEN RoundRobinAdvance(k.candidates, index)
                           ELSE round_robin_index[t]]
                /\ rrLog' =
                       [t \in DOMAIN rrLog \cup {k.target} |->
                           IF t = k.target
                           THEN Append(IF t \in DOMAIN rrLog THEN rrLog[t] ELSE <<>>,
                                       [candidates |-> k.candidates,
                                        selected |-> RoundRobinPick(k.candidates, index)])
                           ELSE rrLog[t]]
    /\ UNCHANGED <<trackerVars, mode, nCalls, updates, modeSet, proxyVars, serviceVars>>

\* the call returns to its caller
Return(c) ==
    /\ call[c].pc = "done"
    /\ call' = [call EXCEPT ![c] = IdleCall]
    /\ UNCHANGED <<trackerVars, routingVars, nCalls, historyVars, proxyVars, serviceVars>>

-----------------------------------------------------------------------------
(* validator.rs *)

(* A body is the sequence of its characters.  The bodies used are ASCII, *)
(* so from_utf8_lossy changes nothing and to_lowercase maps A-Z to a-z.  *)

LowerOf ==
    [A |-> "a", B |-> "b", C |-> "c", D |-> "d", E |-> "e", F |-> "f", G
     |-> "g", H |-> "h", I |-> "i", J |-> "j", K |-> "k", L |-> "l", M
     |-> "m", N |-> "n", O |-> "o", P |-> "p", Q |-> "q", R |-> "r", S
     |-> "s", T |-> "t", U |-> "u", V |-> "v", W |-> "w", X |-> "x", Y
     |-> "y", Z |-> "z"]

\* char::to_lowercase on ASCII
Lower(ch) == IF ch \in DOMAIN LowerOf THEN LowerOf[ch] ELSE ch

\* ToLowercase leaving the case as it is
ToLowercaseKeepCase(body) == body

\* str::to_lowercase
ToLowercase(body) == [i \in DOMAIN body |-> Lower(body[i])]

\* str::contains: pattern occurs in content at some offset
Contains(content, pattern) ==
    \E i \in 0..(Len(content) - Len(pattern)) :
        SubSeq(content, i + 1, i + Len(pattern)) = pattern

\* validate_http, line 17
error_patterns ==
    << <<"b", "l", "o", "c", "k", "e", "d">>,
       <<"f", "o", "r", "b", "i", "d", "d", "e", "n">>,
       <<"a", "c", "c", "e", "s", "s", " ", "d", "e", "n", "i", "e", "d">>,
       <<"e", "r", "r", "o", "r", " ", "4", "0", "3">>,
       <<"e", "r", "r", "o", "r", " ", "4", "0", "4">> >>

\* SuccessValidator::validate_http: <<network_success, user_success>>
ValidateHttp(status, body) ==
    LET network_success == status >= 200 /\ status < 400
    IN  IF ~network_success THEN <<FALSE, FALSE>>
        ELSE LET user_success ==
                     IF body # <<>>
                     THEN LET content_str == ToLowercase(body)
                          IN  ~\E p \in DOMAIN error_patterns :
                                   Contains(content_str, error_patterns[p])
                     ELSE FALSE
             IN  <<network_success, user_success>>

\* the statuses given to validate_http
Statuses == {100, 199, 200, 204, 299, 301, 399, 400, 404, 500}

\* the bodies given to validate_http
Bodies ==
    { <<>>,
      <<"o", "k">>,
      <<"B", "l", "o", "c", "k", "e", "d">>,
      <<"u", "n", "b", "l", "o", "c", "k", "e", "d">>,
      <<"A", "C", "C", "E", "S", "S", " ", "D", "E", "N", "I", "E", "D">>,
      <<"a", "c", "c", "e", "s", "s", "d", "e", "n", "i", "e", "d">>,
      <<"a", " ", "F", "o", "r", "b", "i", "d", "d", "e", "n", " ", "b">>,
      <<"E", "r", "r", "o", "r", " ", "4", "0", "3">>,
      <<"e", "r", "r", "o", "r", " ", "4", "0", "4">>,
      <<"e", "r", "r", "o", "r", " ", "4", "0">>,
      <<"b", "l", "o", "c", "k">>,
      <<"4", "0", "3">> }

-----------------------------------------------------------------------------
(* proxy.rs *)

max_retries == 2        \* handle_request, line 146
max_concurrent == 5     \* test_all_runways, line 301

\* a handler that is serving no request
IdleRequest ==
    [ pc |-> "idle", method |-> "", host |-> "", all_runways |-> <<>>,
      rest |-> <<>>, chunk |-> <<>>, in_flight |-> {}, results |-> <<>>,
      runway |-> <<>>, attempt |-> 0,
      reply |-> <<>>, verdict |-> <<>>,   \* a validate_http call made on its own
      origin |-> "",        \* history: what chose the first runway
      probes |-> <<>>,      \* history: the probes completed, in completion order
      attempts |-> <<>>,    \* history: the forward attempts made
      alt_read |-> <<>>,    \* history: the accessible ids get_alternative_runway read
      responses |-> <<>> ]  \* history: the responses returned to the client

\* the response handle_request returns is recorded
Respond(r, response) ==
    [r EXCEPT !.pc = "done", !.responses = Append(@, response)]

\* a response the proxy makes up itself
ProxyReply(status) == [status |-> status, body |-> <<>>, origin |-> "proxy"]

\* the response of the upstream server, passed on
UpstreamReply(status, body) == [status |-> status, body |-> body, origin |-> "upstream"]

\* a caller applies validate_http to a status and a body
ValidateCall(c) ==
    /\ request[c].pc = "validate"
    /\ request' = [request EXCEPT ![c] =
           [@ EXCEPT !.pc = "validated",
                     !.verdict = <<ValidateHttp(request[c].reply[1].status,
                                                request[c].reply[1].body)>>]]
    /\ UNCHANGED <<trackerVars, routingVars, call, nCalls, historyVars, serviceVars>>

\* HandleRequest routing a CONNECT like any other request
HandleRequestConnectRouted(c, method, target, all_runways) ==
    /\ request[c].pc = "idle"
    /\ call[c].pc = "idle"
    /\ request' = [request EXCEPT ![c] =
           [IdleRequest EXCEPT !.method = method, !.host = target,
                                !.all_runways = all_runways, !.pc = "select"]]
    /\ UNCHANGED <<trackerVars, routingVars, call, nCalls, historyVars, serviceVars>>

\* handle_request, lines 93-125: CONNECT is answered 501; any other request
\* takes the inventory, all_runways being what get_all_runways returned
HandleRequest(c, method, target, all_runways) ==
    /\ request[c].pc = "idle"
    /\ call[c].pc = "idle"
    /\ request' = [request EXCEPT ![c] =
           IF method = "CONNECT"
           THEN Respond([IdleRequest EXCEPT !.method = method, !.host = target],
                        ProxyReply(501))
           ELSE [IdleRequest EXCEPT !.method = method, !.host = target,
                                    !.all_runways = all_runways, !.pc = "select"]]
    /\ UNCHANGED <<trackerVars, routingVars, call, nCalls, historyVars, serviceVars>>

\* handle_request, line 126: the call of select_runway
SelectForRequest(c) ==
    /\ request[c].pc = "select"
    /\ SelectStart(c, request[c].host, request[c].all_runways)

IsDirect(runway) == runway.is_direct
IsProxied(runway) == ~runway.is_direct

\* Prioritize keeping the order of the inventory
PrioritizeInventoryOrder(all_runways) == all_runways

\* test_all_runways, lines 296-298: the direct runways, then the others
Prioritize(all_runways) ==
    SelectSeq(all_runways, IsDirect) \o SelectSeq(all_runways, IsProxied)

\* handle_request, lines 126-132: select_runway has returned; on None the
\* probing of test_all_runways begins
AfterSelect(c) ==
    /\ request[c].pc = "select"
    /\ call[c].pc = "done"
    /\ call[c].op = "select_runway"
    /\ request' = [request EXCEPT ![c] =
           IF call[c].result = <<>>
           THEN [@ EXCEPT !.pc = "chunks",
                          !.rest = Prioritize(request[c].all_runways)]
           ELSE [@ EXCEPT !.pc = "forward", !.runway = call[c].result,
                          !.origin = "select"]]
    /\ call' = [call EXCEPT ![c] = IdleCall]
    /\ UNCHANGED <<trackerVars, routingVars, nCalls, historyVars, serviceVars>>

\* chunks() handing out the whole list as one chunk
FirstChunkWhole(s, n) == s

\* slice::chunks: the first chunk of at most n elements, and what follows it
FirstChunk(s, n) == SubSeq(s, 1, IF Len(s) < n THEN Len(s) ELSE n)
AfterChunk(s, n) == SubSeq(s, (IF Len(s) < n THEN Len(s) ELSE n) + 1, Len(s))

\* test_all_runways, lines 303-317, and handle_request, lines 134-143: the
\* probes of the next chunk are started together; when no chunk is left
\* test_all_runways returns None and the request is answered 502
StartChunk(c) ==
    /\ request[c].pc = "chunks"
    /\ request' = [request EXCEPT ![c] =
           IF request[c].rest = <<>>
           THEN Respond(request[c], ProxyReply(502))
           ELSE LET chunk == FirstChunk(request[c].rest, max_concurrent)
                IN  [@ EXCEPT !.pc = "probing",
                              !.chunk = chunk,
                              !.rest = AfterChunk(request[c].rest, max_concurrent),
                              !.in_flight = DOMAIN chunk,
                              !.results = [i \in DOMAIN chunk |-> <<>>]]]
    /\ UNCHANGED <<trackerVars, routingVars, call, nCalls, historyVars, serviceVars>>

\* ProbeResult reporting user_success whatever the network did
ProbeResultUserAlways(reached) == <<reached, TRUE>>

\* test_runway_accessibility: <<network_success, user_success>> of a probe
\* that reached the target or did not; user_success = network_success
ProbeResult(reached) == <<reached, reached>>

\* test_all_runways, lines 311-315: one probe ends and its task updates the
\* tracker before it yields its result
ProbeComplete(c, i, reached) ==
    /\ request[c].pc = "probing"
    /\ i \in request[c].in_flight
    /\ LET r == request[c]
           result == ProbeResult(reached)
       IN  /\ Update(r.host, r.chunk[i].id, result[1], result[2], 1)
           /\ request' = [request EXCEPT ![c] =
                  [@ EXCEPT !.in_flight = @ \ {i},
                            !.results = [@ EXCEPT ![i] = <<result[2]>>],
                            !.probes = Append(@,
                                [id |-> r.chunk[i].id,
                                 network_success |-> result[1],
                                 user_success |-> result[2],
                                 update |-> Len(EventsOf(r.host, r.chunk[i].id)) + 1])]]
    /\ UNCHANGED <<routingVars, call, nCalls, rrLog, modeSet, serviceVars>>

\* FirstSuccess finding no probe that reported user_success
FirstSuccessNone(chunk, results) == <<>>

\* test_all_runways, lines 321-326: the first runway of the chunk whose
\* probe reported user_success
FirstSuccess(chunk, results) ==
    LET hits == {i \in DOMAIN chunk : results[i] = <<TRUE>>}
    IN  IF hits = {} THEN <<>>
        ELSE <<chunk[CHOOSE i \in hits : \A j \in hits : i <= j]>>

\* test_all_runways, lines 319-327: join_all has every result of the chunk
JoinChunk(c) ==
    /\ request[c].pc = "probing"
    /\ request[c].in_flight = {}
    /\ request' = [request EXCEPT ![c] =
           LET found == FirstSuccess(request[c].chunk, request[c].results)
           IN  IF found # <<>>
               THEN [@ EXCEPT !.pc = "forward", !.runway = found, !.origin = "probe"]
               ELSE [@ EXCEPT !.pc = "chunks"]]
    /\ UNCHANGED <<trackerVars, routingVars, call, nCalls, historyVars, serviceVars>>

\* what the network does to a forwarded request: the client cannot be
\* built (the ? of lines 233 and 237), the target does not resolve or
\* send() fails, or the upstream server replies
ClientError == [kind |-> "error", status |-> 0, body |-> <<>>]
NoReply == [kind |-> "no_reply", status |-> 0, body |-> <<>>]
Reply(status, body) == [kind |-> "reply", status |-> status, body |-> body]

\* StatusCode::is_success, StatusCode::is_redirection
IsSuccess(status) == 300 > status /\ status >= 200
IsRedirection(status) == 400 > status /\ status >= 300

\* make_http_request: ok is FALSE for Err(e)
MakeHttpRequest(outcome) ==
    CASE outcome.kind = "error" ->
             [ok |-> FALSE, network_success |-> FALSE, user_success |-> FALSE,
              status |-> 0, body |-> <<>>]
      [] outcome.kind = "no_reply" ->
             [ok |-> TRUE, network_success |-> FALSE, user_success |-> FALSE,
              status |-> 502, body |-> <<>>]
      [] outcome.kind = "reply" ->
             [ok |-> TRUE,
              network_success |-> IsSuccess(outcome.status) \/ IsRedirection(outcome.status),
              user_success |-> IF outcome.status = 200
                               THEN ValidateHttp(outcome.status, outcome.body)[2]
                               ELSE FALSE,
              status |-> outcome.status, body |-> outcome.body]

\* AfterAttempt passing a reply on only when it is a user success
AfterAttemptRetryPartial(result, attempt) ==
    IF result.ok /\ result.network_success /\ result.user_success THEN "respond"
    ELSE IF attempt < max_retries - 1 THEN "alternative"
    ELSE "bad_gateway"

\* AfterAttempt passing on whatever reply the attempt got
AfterAttemptPassesFailure(result, attempt) ==
    IF result.ok THEN "respond"
    ELSE IF attempt < max_retries - 1 THEN "alternative"
    ELSE "bad_gateway"

\* handle_request, lines 153-185: what follows a forward attempt
AfterAttempt(result, attempt) ==
    IF result.ok /\ result.network_success THEN "respond"
    ELSE IF attempt < max_retries - 1 THEN "alternative"
    ELSE "bad_gateway"

\* handle_request, lines 147-185: one forward attempt through the current
\* runway; Ok(..) is written to the tracker, Err(e) is not
Forward(c, outcome) ==
    /\ request[c].pc = "forward"
    /\ LET r == request[c]
           runway == r.runway[1]
           result == MakeHttpRequest(outcome)
           next == AfterAttempt(result, r.attempt)
           entry == [runway |-> runway.id, outcome |-> outcome, result |-> result,
                     update |-> IF result.ok
                                THEN Len(EventsOf(r.host, runway.id)) + 1 ELSE 0]
           logged == [r EXCEPT !.attempts = Append(@, entry)]
       IN  /\ IF result.ok
              THEN Update(r.host, runway.id, result.network_success,
                          result.user_success, 1)
              ELSE UNCHANGED <<trackerVars, updates>>
           /\ request' = [request EXCEPT ![c] =
                  CASE next = "respond" ->
                           Respond(logged, UpstreamReply(result.status, result.body))
                    [] next = "alternative" -> [logged EXCEPT !.pc = "alternative"]
                    [] OTHER -> Respond(logged, ProxyReply(502))]
    /\ UNCHANGED <<routingVars, call, nCalls, rrLog, modeSet, serviceVars>>

\* AlternativeIds keeping the current runway
AlternativeIdsUnfiltered(accessible_ids, current_id) == accessible_ids

\* get_alternative_runway, lines 334-337
AlternativeIds(accessible_ids, current_id) ==
    SelectSeq(accessible_ids, LAMBDA id : id # current_id)

\* GetRunway finding no runway
GetRunwayNone(inventory, id) == <<>>

\* RunwayManager::get_runway; the map holds the runways get_all_runways
\* returned, it is filled once at startup
GetRunway(inventory, id) ==
    LET found == SelectSeq(inventory, LAMBDA runway : runway.id = id)
    IN  IF found = <<>> THEN <<>> ELSE <<found[1]>>

\* get_alternative_runway and handle_request, lines 163-171 and 176-184
GetAlternativeRunway(c) ==
    /\ request[c].pc = "alternative"
    /\ \E order \in IterationOrders(request[c].host) :
           LET r == request[c]
               accessible_ids == AccessibleRunways(r.host, order)
               alternative_ids == AlternativeIds(accessible_ids, r.runway[1].id)
               alt == IF alternative_ids = <<>> THEN <<>>
                      ELSE GetRunway(r.all_runways, alternative_ids[1])
               read == [r EXCEPT !.alt_read = <<accessible_ids>>]
           IN  request' = [request EXCEPT ![c] =
                   IF alt # <<>>
                   THEN [read EXCEPT !.runway = alt, !.attempt = @ + 1, !.pc = "forward"]
                   ELSE Respond(read, ProxyReply(502))]
    /\ UNCHANGED <<trackerVars, routingVars, call, nCalls, historyVars, serviceVars>>

\* the response has gone to the client
FinishRequest(c) ==
    /\ request[c].pc = "done"
    /\ request' = [request EXCEPT ![c] = IdleRequest]
    /\ UNCHANGED <<trackerVars, routingVars, call, nCalls, historyVars, serviceVars>>

-----------------------------------------------------------------------------
(* tracker.rs under concurrent callers: update split where it takes and     *)
(* drops the guard of the target's shard, and the three reads              *)

MaxGuardedUpdates == 3      \* updates entered in one run of SpecGuard

Tasks == {"w1", "w2", "g1"}
Writers == {"w1", "w2"}
Readers == {"g1"}
GuardedIds == {"r1", "r2"}

IdleTask ==
    [ pc |-> "idle", op |-> "none", target |-> "", runway_id |-> "",
      network_success |-> FALSE, user_success |-> FALSE, response_time |-> 0,
      local |-> <<>>, result |-> <<>> ]

\* task k holds the write guard that update's entry() of line 91 returned
HoldsGuard(k, target) ==
    tasks[k].pc \in {"entry", "store", "return"} /\ tasks[k].target = target

\* entry() and get() taking the guard although an update holds it
GuardFreeAlways(target) == TRUE

\* DashMap::entry / DashMap::get on target block while an update holds the
\* guard of its shard
GuardFree(target) == \A k \in Tasks : ~HoldsGuard(k, target)

VersionsOf(target, runway_id) ==
    IF <<target, runway_id>> \in DOMAIN versions
    THEN versions[<<target, runway_id>>] ELSE <<>>

\* update, line 91: the guard is taken; the target gets a map if it had none
UpdateEnter(k, target, runway_id, network_success, user_success, rt) ==
    /\ tasks[k].pc = "idle"
    /\ GuardFree(target)
    /\ tasks' = [tasks EXCEPT ![k] =
                    [IdleTask EXCEPT !.pc = "entry", !.op = "update",
                                     !.target = target, !.runway_id = runway_id,
                                     !.network_success = network_success,
                                     !.user_success = user_success,
                                     !.response_time = rt]]
    /\ metrics' = [t \in DOMAIN metrics \cup {target} |->
                      IF HasTarget(t) THEN metrics[t] ELSE <<>>]
    /\ UNCHANGED <<success_rate_window, success_rate_threshold, clock, routingVars,
                   call, nCalls, historyVars, proxyVars, versions, monitor,
                   resolver, manager>>

\* update, lines 93-96: the record is created if absent, and cloned
UpdateEntry(k) ==
    LET t == tasks[k]
    IN  /\ t.pc = "entry"
        /\ metrics' = Inserted(t.target, t.runway_id,
                               StoredOrNew(t.target, t.runway_id))
        /\ tasks' = [tasks EXCEPT ![k].pc = "store",
                                  ![k].local = <<StoredOrNew(t.target, t.runway_id)>>]
        /\ UNCHANGED <<success_rate_window, success_rate_threshold, clock,
                       routingVars, call, nCalls, historyVars, proxyVars, versions,
                       monitor, resolver, manager>>

\* update, lines 98-143: the clone is brought up to date and inserted
UpdateStore(k) ==
    LET t == tasks[k]
        m == UpdatedMetrics(t.local[1], t.network_success, t.user_success,
                            t.response_time, success_rate_window, clock)
    IN  /\ t.pc = "store"
        /\ metrics' = Inserted(t.target, t.runway_id, m)
        /\ clock' = clock + 1
        /\ updates' = Logged(t.target, t.runway_id,
                             <<t.network_success, t.user_success>>)
        /\ versions' = [p \in DOMAIN versions \cup {<<t.target, t.runway_id>>} |->
                           IF p = <<t.target, t.runway_id>>
                           THEN Append(VersionsOf(t.target, t.runway_id),
                                       [record |-> m,
                                        response_time |-> t.response_time])
                           ELSE versions[p]]
        /\ tasks' = [tasks EXCEPT ![k].pc = "return"]
        /\ UNCHANGED <<success_rate_window, success_rate_threshold, routingVars,
                       call, nCalls, rrLog, modeSet, proxyVars, monitor, resolver,
                       manager>>

\* update, line 144: the guard is dropped
UpdateReturn(k) ==
    /\ tasks[k].pc = "return"
    /\ tasks' = [tasks EXCEPT ![k] = IdleTask]
    /\ UNCHANGED <<trackerVars, routingVars, call, nCalls, historyVars, proxyVars,
                   versions, monitor, resolver, manager>>

\* one of the reads, made under the read guard that get(target) returns
TrackerRead(k, op, target, result) ==
    /\ tasks[k].pc = "idle"
    /\ GuardFree(target)
    /\ tasks' = [tasks EXCEPT ![k] =
                    [IdleTask EXCEPT !.op = op, !.target = target,
                                     !.result = result]]
    /\ UNCHANGED <<trackerVars, routingVars, call, nCalls, historyVars, proxyVars,
                   versions, monitor, resolver, manager>>

\* TargetAccessibilityTracker::get_metrics: the record, if there is one
ReadMetrics(k, target, runway_id) ==
    TrackerRead(k, "get_metrics", target, GetMetrics(target, runway_id))

\* TargetAccessibilityTracker::get_target_metrics: the records of the target
ReadTargetMetrics(k, target) ==
    TrackerRead(k, "get_target_metrics", target,
                IF HasTarget(target) THEN metrics[target] ELSE <<>>)

\* TargetAccessibilityTracker::get_accessible_runways, as called directly
ReadAccessibleRunways(k, target) ==
    \E order \in IterationOrders(target) :
        TrackerRead(k, "get_accessible_runways", target,
                    AccessibleRunways(target, order))

\* TargetAccessibilityTracker::get_all_targets: the keys of the map, in the
\* order its iterator yields them; the iterator takes the guard of every
\* shard, so it waits for the updates under way
ReadAllTargets(k, order) ==
    /\ tasks[k].pc = "idle"
    /\ \A target \in DOMAIN metrics : GuardFree(target)
    /\ Range(order) = DOMAIN metrics
    /\ Len(order) = Cardinality(DOMAIN metrics)
    /\ tasks' = [tasks EXCEPT ![k] =
                    [IdleTask EXCEPT !.op = "get_all_targets", !.result = order]]
    /\ UNCHANGED <<trackerVars, routingVars, call, nCalls, historyVars, proxyVars,
                   versions, monitor, resolver, manager>>

-----------------------------------------------------------------------------
(* runway_manager.rs: test_runway_accessibility *)

\* what a probe meets: the target resolves or not, the upstream proxy is
\* flagged accessible or not, the interface of the runway is in the
\* inventory or not, the connection (the GET through the proxy) succeeds
GoodEnv ==
    [ resolved |-> TRUE, proxy_accessible |-> TRUE, interface_present |-> TRUE,
      connected |-> TRUE ]

HealthEnvs ==
    { GoodEnv,
      [GoodEnv EXCEPT !.resolved = FALSE],
      [GoodEnv EXCEPT !.proxy_accessible = FALSE],
      [GoodEnv EXCEPT !.interface_present = FALSE],
      [GoodEnv EXCEPT !.connected = FALSE] }

\* test_runway_accessibility, lines 229-254: network_success, FALSE on each
\* of the early returns
Reaches(runway, env) ==
    IF ~env.resolved THEN FALSE
    ELSE IF ~runway.is_direct
         THEN env.proxy_accessible /\ env.connected
         ELSE env.interface_present /\ env.connected

\* test_runway_accessibility: <<network_success, user_success>>
TestRunwayAccessibility(runway, env) == ProbeResult(Reaches(runway, env))

-----------------------------------------------------------------------------
(* health.rs *)

max_targets_per_cycle == 10
max_failed_per_target == 5
max_partial_per_target == 3

IdleMonitor ==
    [ running |-> FALSE,     \* the AtomicBool
      pc |-> "new",          \* where start() stands; "new": not yet begun
      targets |-> <<>>,      \* targets_to_check still to visit
      target |-> "",
      failed |-> <<>>,       \* failed_runways still to probe
      partial |-> <<>>,      \* partial_runways still to probe
      phase |-> "",          \* the list the probe under way was taken from
      stopped |-> FALSE,     \* history: stop() has been called
      cycles |-> 0,          \* history: cycles begun
      began |-> 0,           \* history: the tracker's clock when this cycle began
      examined |-> <<>>,     \* history: targets visited in this cycle, with snapshot
      log |-> <<>> ]         \* history: probes made in this cycle

\* take(n) keeping every element
TakeAll(s, n) == s

\* Iterator::take
Take(s, n) == SubSeq(s, 1, IF Len(s) < n THEN Len(s) ELSE n)

\* IdsInState yielding every id of the snapshot, whatever its state
IdsInStateAny(snapshot, order, state) == order

\* the ids of the snapshot in the given state, in iteration order
RECURSIVE IdsInState(_, _, _)
IdsInState(snapshot, order, state) ==
    IF order = <<>> THEN <<>>
    ELSE (IF snapshot[Head(order)].state = state THEN <<Head(order)>> ELSE <<>>)
             \o IdsInState(snapshot, Tail(order), state)

\* start, line 31
HealthStart ==
    /\ monitor.pc = "new"
    /\ monitor' = [monitor EXCEPT !.running = TRUE, !.pc = "check"]
    /\ UNCHANGED <<trackerVars, routingVars, call, nCalls, historyVars, proxyVars,
                   tasks, versions, resolver, manager>>

\* stop, lines 122-125
HealthStop ==
    /\ ~monitor.stopped
    /\ monitor' = [monitor EXCEPT !.running = FALSE, !.stopped = TRUE]
    /\ UNCHANGED <<trackerVars, routingVars, call, nCalls, historyVars, proxyVars,
                   tasks, versions, resolver, manager>>

\* start, line 34: the flag is read
HealthLoopCheck ==
    /\ monitor.pc = "check"
    /\ monitor' = IF monitor.running
                  THEN [monitor EXCEPT !.pc = "cycle", !.cycles = @ + 1,
                                       !.began = clock,
                                       !.examined = <<>>, !.log = <<>>]
                  ELSE [monitor EXCEPT !.pc = "ended"]
    /\ UNCHANGED <<trackerVars, routingVars, call, nCalls, historyVars, proxyVars,
                   tasks, versions, resolver, manager>>

\* health_check_cycle, lines 44-54: refresh_interfaces replaces the names
\* of the interfaces found by those the host has now (found; what it had
\* when get_if_addrs fails); get_all_targets yields the targets in the
\* order of the map's iterator; at most ten are kept
HealthCycleBegin(order, found) ==
    /\ monitor.pc = "cycle"
    /\ Range(order) = DOMAIN metrics
    /\ Len(order) = Cardinality(DOMAIN metrics)
    /\ manager' = [manager EXCEPT !.interface_info = found]
    /\ monitor' = IF order = <<>>
                  THEN [monitor EXCEPT !.pc = "sleep"]
                  ELSE [monitor EXCEPT !.pc = "target",
                                       !.targets = Take(order, max_targets_per_cycle)]
    /\ UNCHANGED <<trackerVars, routingVars, call, nCalls, historyVars, proxyVars,
                   tasks, versions, resolver>>

\* health_check_cycle, lines 56-70 and 90-100: the next target's records are
\* read and the two lists are taken from that one snapshot
HealthTargetBegin(order) ==
    /\ monitor.pc = "target"
    /\ IF monitor.targets = <<>>
       THEN monitor' = [monitor EXCEPT !.pc = "sleep"]
       ELSE LET target == Head(monitor.targets)
                snapshot == IF HasTarget(target) THEN metrics[target] ELSE <<>>
            IN  /\ Range(order) = DOMAIN snapshot
                /\ Len(order) = Cardinality(DOMAIN snapshot)
                /\ monitor' =
                       [monitor EXCEPT
                           !.pc = "failed",
                           !.target = target,
                           !.targets = Tail(@),
                           !.failed = Take(IdsInState(snapshot, order, "Inaccessible"),
                                           max_failed_per_target),
                           !.partial = Take(IdsInState(snapshot, order,
                                                       "PartiallyAccessible"),
                                            max_partial_per_target),
                           !.examined = Append(@, [target |-> target,
                                                   snapshot |-> snapshot])]
    /\ UNCHANGED <<trackerVars, routingVars, call, nCalls, historyVars, proxyVars,
                   tasks, versions, resolver, manager>>

\* health_check_cycle, lines 73-79 and 102-108: the next runway of the list
\* is looked up and probed; an id the inventory lacks is passed over
HealthProbe(inventory, env, elapsed) ==
    /\ monitor.pc \in {"failed", "partial"}
    /\ LET list == monitor[monitor.pc]
       IN  monitor' =
               IF list = <<>>
               THEN [monitor EXCEPT !.pc = IF monitor.pc = "failed"
                                           THEN "partial" ELSE "target"]
               ELSE IF GetRunway(inventory, Head(list)) = <<>>
               THEN [monitor EXCEPT ![monitor.pc] = Tail(list)]
               ELSE LET result == TestRunwayAccessibility(
                                      GetRunway(inventory, Head(list))[1], env)
                    IN  [monitor EXCEPT
                            !.pc = "update",
                            !.phase = monitor.pc,
                            !.log = Append(@, [target |-> monitor.target,
                                               id |-> Head(list),
                                               list |-> monitor.pc,
                                               env |-> env,
                                               network_success |-> result[1],
                                               user_success |-> result[2],
                                               elapsed |-> elapsed,
                                               update |-> 0])]
    /\ UNCHANGED <<trackerVars, routingVars, call, nCalls, historyVars, proxyVars,
                   tasks, versions, resolver, manager>>

\* HealthUpdate going on to the next runway without the update
HealthUpdateSkipped ==
    /\ monitor.pc = "update"
    /\ monitor' = [monitor EXCEPT !.pc = monitor.phase,
                                  ![monitor.phase] = Tail(@)]
    /\ UNCHANGED <<trackerVars, routingVars, call, nCalls, historyVars, proxyVars,
                   tasks, versions, resolver, manager>>

\* health_check_cycle, lines 80-84 and 109-113: the result of the probe is
\* written to the tracker
HealthUpdate ==
    /\ monitor.pc = "update"
    /\ LET p == monitor.log[Len(monitor.log)]
       IN  /\ Update(p.target, p.id, p.network_success, p.user_success, p.elapsed)
           /\ monitor' = [monitor EXCEPT
                             !.pc = monitor.phase,
                             ![monitor.phase] = Tail(@),
                             !.log = [@ EXCEPT ![Len(monitor.log)].update =
                                         Len(EventsOf(p.target, p.id)) + 1]]
    /\ UNCHANGED <<routingVars, call, nCalls, rrLog, modeSet, proxyVars,
                   tasks, versions, resolver, manager>>

\* start, line 38: the sleep between two cycles ends
HealthSleep ==
    /\ monitor.pc = "sleep"
    /\ monitor' = [monitor EXCEPT !.pc = "check"]
    /\ UNCHANGED <<trackerVars, routingVars, call, nCalls, historyVars, proxyVars,
                   tasks, versions, resolver, manager>>

-----------------------------------------------------------------------------
(* runway_manager.rs: discover_runways.  A name is the sequence of the     *)
(* pieces that "_" separates in it, so that format!("{}_{}", a, b) is the  *)
(* concatenation of the pieces of a and of b.                              *)

IdleManager ==
    [ interfaces |-> <<>>,        \* the configured interface names
      interface_info |-> {},      \* the names of the interfaces found
      upstream_proxies |-> <<>>,
      dns_servers |-> <<>>,
      runways |-> <<>>,           \* the map id -> runway
      discovered |-> <<>>,        \* what the last discover_runways returned
      calls |-> 0 ]               \* history: discover_runways calls made

\* Runway::new
NewRunway(id, interface, upstream_proxy, dns_server) ==
    [ id |-> id, interface |-> interface, upstream_proxy |-> upstream_proxy,
      dns_server |-> dns_server, is_direct |-> upstream_proxy = <<>> ]

\* the counter standing still
NextCounterStuck(counter) == counter

\* runway_id_counter += 1
NextCounter(counter) == counter + 1

\* lines 154-168: one direct runway of the interface for each server; st
\* is the loop's state, the runways pushed so far and the counter
RECURSIVE DirectOf(_, _, _)
DirectOf(st, interface, dns_servers) ==
    IF dns_servers = <<>> THEN st
    ELSE DirectOf(
             [ runways |-> Append(st.runways,
                   NewRunway(<<"direct">> \o interface \o Head(dns_servers).host
                                 \o <<st.counter>>,
                             interface, <<>>, <<Head(dns_servers)>>)),
               counter |-> NextCounter(st.counter) ],
             interface, Tail(dns_servers))

\* lines 151-170: the direct runways, interface by interface
RECURSIVE DirectRunways(_, _, _, _)
DirectRunways(st, interfaces, info, dns_servers) ==
    IF interfaces = <<>> THEN st
    ELSE DirectRunways(IF Head(interfaces) \in info
                       THEN DirectOf(st, Head(interfaces), dns_servers) ELSE st,
                       Tail(interfaces), info, dns_servers)

\* lines 177-195: the runways of one interface through one proxy
RECURSIVE ProxyOf(_, _, _, _)
ProxyOf(st, interface, proxy, dns_servers) ==
    IF dns_servers = <<>> THEN st
    ELSE ProxyOf(
             [ runways |-> Append(st.runways,
                   NewRunway(<<"proxy">> \o interface \o proxy.proxy_type
                                 \o proxy.host \o Head(dns_servers).host
                                 \o <<st.counter>>,
                             interface, <<proxy>>, <<Head(dns_servers)>>)),
               counter |-> NextCounter(st.counter) ],
             interface, proxy, Tail(dns_servers))

\* lines 176-196: the runways of one interface through each proxy in turn
RECURSIVE ProxiesOf(_, _, _, _)
ProxiesOf(st, interface, proxies, dns_servers) ==
    IF proxies = <<>> THEN st
    ELSE ProxiesOf(ProxyOf(st, interface, Head(proxies), dns_servers),
                   interface, Tail(proxies), dns_servers)

\* lines 173-198: the proxy runways, interface by interface
RECURSIVE ProxyRunways(_, _, _, _, _)
ProxyRunways(st, interfaces, info, proxies, dns_servers) ==
    IF interfaces = <<>> THEN st
    ELSE ProxyRunways(IF Head(interfaces) \in info
                      THEN ProxiesOf(st, Head(interfaces), proxies, dns_servers)
                      ELSE st,
                      Tail(interfaces), info, proxies, dns_servers)

\* lines 137-145: the interfaces to use; order is how the map of the
\* interfaces found yields its keys
InterfacesToUse(interfaces, info, order) ==
    IF <<"auto">> \in Range(interfaces) THEN order
    ELSE SelectSeq(interfaces, LAMBDA iface : iface \in info)

\* lines 147-198: the runways, the direct ones first
DiscoveredRunways(interfaces_to_use, info, proxies, dns_servers) ==
    ProxyRunways(DirectRunways([runways |-> <<>>, counter |-> 0],
                               interfaces_to_use, info, dns_servers),
                 interfaces_to_use, info, proxies, dns_servers).runways

\* lines 200-206: the map is cleared and filled, a later runway replacing
\* an earlier one of the same id
RunwayMap(runways) ==
    [id \in {runways[i].id : i \in DOMAIN runways} |->
        runways[CHOOSE i \in DOMAIN runways :
                    /\ runways[i].id = id
                    /\ \A j \in DOMAIN runways : runways[j].id = id => j <= i]]

\* RunwayManager::discover_runways
DiscoverRunways(order) ==
    /\ Range(order) = manager.interface_info
    /\ Len(order) = Cardinality(manager.interface_info)
    /\ LET runways == DiscoveredRunways(
                          InterfacesToUse(manager.interfaces, manager.interface_info,
                                          order),
                          manager.interface_info, manager.upstream_proxies,
                          manager.dns_servers)
       IN  manager' = [manager EXCEPT !.runways = RunwayMap(runways),
                                      !.discovered = runways,
                                      !.calls = @ + 1]
    /\ UNCHANGED <<trackerVars, routingVars, call, nCalls, historyVars, proxyVars,
                   tasks, versions, monitor, resolver>>

-----------------------------------------------------------------------------
(* dns.rs: DNSResolver.  Time is in whole seconds. *)

cache_ttl == 300
DnsTimeout == 5             \* DNSResolver.timeout, from the configuration
DnsServers == 2             \* the number of resolvers built from the configuration

Addresses == {"ip1", "ip2"}
Literals == {"10.0.0.1"}    \* the domains that parse as an IpAddr

\* str::parse::<IpAddr>
ParseIp(domain) == IF domain \in Literals THEN <<domain>> ELSE <<>>

\* DNSResolver::is_ip_address
IsIpAddress(domain) == ParseIp(domain) # <<>>

IdleResolver ==
    [ cache |-> <<>>,        \* domain -> [ip, time]: the (Option<IpAddr>, Instant)
      now |-> 0,             \* the wall clock
      pc |-> "idle",
      domain |-> "",
      server |-> 0,          \* the index of the resolver to try next
      result |-> <<>>,       \* what resolve returns: [status, ip, elapsed]
      calls |-> 0,           \* history: resolve calls begun
      queried |-> 0,         \* history: lookups made by this call
      cache0 |-> <<>>,       \* history: the cache when this call began
      began |-> 0,           \* history: the clock when this call began
      lookups |-> <<>>,      \* history: domain -> [ip, time] of its last successful lookup
      lookups0 |-> <<>> ]    \* history: lookups when this call began

\* the entry counting as fresh up to and at 300 seconds
IsFreshInclusive(time, now) == now - time <= cache_ttl

\* line 64: expiry.elapsed() < Duration::from_secs(300)
IsFresh(time, now) == now - time < cache_ttl

\* HashMap::insert
Put(map, key, value) ==
    [k \in DOMAIN map \cup {key} |-> IF k = key THEN value ELSE map[k]]

\* time passes between two steps of the resolver
DnsTick(d) ==
    /\ resolver' = [resolver EXCEPT !.now = @ + d]
    /\ UNCHANGED <<trackerVars, routingVars, call, nCalls, historyVars, proxyVars,
                   tasks, versions, monitor, manager>>

\* resolve, lines 54-68: a literal address is parsed, a fresh cache entry is
\* returned, anything else goes to the servers
ResolveBegin(domain) ==
    /\ resolver.pc = "idle"
    /\ LET entered == [resolver EXCEPT !.domain = domain, !.queried = 0,
                                       !.calls = @ + 1,
                                       !.cache0 = resolver.cache,
                                       !.lookups0 = resolver.lookups,
                                       !.began = resolver.now]
       IN  resolver' =
               IF IsIpAddress(domain)
               THEN [entered EXCEPT
                        !.pc = "done",
                        !.result = IF ParseIp(domain) = <<>>
                                   THEN [status |-> "err", ip |-> <<>>, elapsed |-> 0]
                                   ELSE [status |-> "ok", ip |-> ParseIp(domain),
                                         elapsed |-> 0]]
               ELSE IF /\ domain \in DOMAIN resolver.cache
                       /\ IsFresh(resolver.cache[domain].time, resolver.now)
               THEN [entered EXCEPT
                        !.pc = "done",
                        !.result = [status |-> "ok", ip |-> resolver.cache[domain].ip,
                                    elapsed |-> 0]]
               ELSE [entered EXCEPT !.pc = "query", !.server = 1]
    /\ UNCHANGED <<trackerVars, routingVars, call, nCalls, historyVars, proxyVars,
                   tasks, versions, monitor, manager>>

\* resolve, lines 71-97: the next server is asked; the lookup takes took
\* seconds and yields an address, an answer without one, an error or
\* nothing before the timeout; after the last server (None, timeout)
ResolveQuery(outcome, ip, took) ==
    /\ resolver.pc = "query"
    /\ resolver' =
           IF resolver.server > DnsServers
           THEN [resolver EXCEPT
                    !.pc = "done",
                    !.result = [status |-> "ok", ip |-> <<>>, elapsed |-> DnsTimeout]]
           ELSE IF outcome = "address"
           THEN [resolver EXCEPT
                    !.pc = "done",
                    !.now = @ + took,
                    !.queried = @ + 1,
                    !.cache = Put(@, resolver.domain,
                                  [ip |-> <<ip>>, time |-> resolver.now + took]),
                    !.lookups = Put(@, resolver.domain,
                                    [ip |-> <<ip>>, time |-> resolver.now + took]),
                    !.result = [status |-> "ok", ip |-> <<ip>>, elapsed |-> took]]
           ELSE [resolver EXCEPT !.now = @ + took, !.queried = @ + 1,
                                 !.server = @ + 1]
    /\ UNCHANGED <<trackerVars, routingVars, call, nCalls, historyVars, proxyVars,
                   tasks, versions, monitor, manager>>

\* the caller has the result
ResolveReturn ==
    /\ resolver.pc = "done"
    /\ resolver' = [resolver EXCEPT !.pc = "idle", !.result = <<>>, !.domain = "",
                                    !.server = 0]
    /\ UNCHANGED <<trackerVars, routingVars, call, nCalls, historyVars, proxyVars,
                   tasks, versions, monitor, manager>>

-----------------------------------------------------------------------------
(* Specifications *)

\* the state of the other components after construction
InitService ==
    /\ tasks = [k \in Tasks |-> IdleTask]
    /\ versions = <<>>
    /\ monitor = IdleMonitor
    /\ resolver = IdleResolver
    /\ manager = IdleManager

InitCore(windows, thresholds, modes) ==
    /\ metrics = <<>>
    /\ success_rate_window \in windows
    /\ success_rate_threshold \in thresholds
    /\ clock = 0
    /\ mode \in modes
    /\ round_robin_index = <<>>
    /\ call = [c \in Callers |-> IdleCall]
    /\ updates = <<>>
    /\ nCalls = 0
    /\ rrLog = <<>>
    /\ modeSet = mode

InitWith(windows, thresholds, modes) ==
    /\ InitCore(windows, thresholds, modes)
    /\ request = [c \in Callers |-> IdleRequest]
    /\ InitService

(* The tracker alone: every kind of update on one (target, runway) pair. *)

InitTracker == InitWith(WindowChoices, {DefaultThreshold}, {"Latency"})

TrackerUpdate ==
    /\ clock < MaxAttempts
    /\ \E network_success \in BOOLEAN, user_success \in BOOLEAN, rt \in ResponseTimes :
           Update("t1", "r1", network_success, user_success, rt)
    /\ UNCHANGED <<routingVars, call, nCalls, rrLog, modeSet, proxyVars, serviceVars>>

NextTracker == TrackerUpdate

SpecTracker == InitTracker /\ [][NextTracker]_vars

(* The routing engine over a tracker that is being updated: one caller,  *)
(* every mode, mode changes at any time.                                 *)

InitRouting == InitWith({3}, {DefaultThreshold}, RoutingMode)

RouteUpdate ==
    /\ clock < MaxRouteUpdates
    /\ \E runway_id \in RunwayIds, ev \in RouteEvents :
           Update("t1", runway_id, ev[1], ev[2], ev[3])
    /\ UNCHANGED <<routingVars, call, nCalls, rrLog, modeSet, proxyVars, serviceVars>>

RouteSelect ==
    /\ nCalls < MaxRouteSelects
    /\ \E target \in Targets, runways \in InputLists :
           SelectStart("c1", target, runways)

RouteRead == \E target \in Targets : GetAccessibleRunways("c1", target)

RouteSetMode == \E m \in RoutingMode : m # mode /\ SetMode(m)

NextRouting ==
    \/ RouteUpdate
    \/ RouteSelect
    \/ RouteRead
    \/ RouteSetMode
    \/ SelectDispatch("c1")
    \/ SelectLatencyStep("c1")
    \/ SelectRoundRobin("c1")
    \/ Return("c1")

SpecRouting == InitRouting /\ [][NextRouting]_vars

(* Reads of the accessible set of a target whose two runways are being   *)
(* updated.                                                              *)

InitAccess == InitWith({5}, {DefaultThreshold}, {"Latency"})

AccessUpdate ==
    /\ clock < MaxAccessUpdates
    /\ \E runway_id \in {"r1", "r2"}, network_success \in BOOLEAN, user_success \in BOOLEAN :
           Update("t1", runway_id, network_success, user_success, 1)
    /\ UNCHANGED <<routingVars, call, nCalls, rrLog, modeSet, proxyVars, serviceVars>>

AccessRead == \E target \in Targets : GetAccessibleRunways("c1", target)

NextAccess ==
    \/ AccessUpdate
    \/ AccessRead
    \/ Return("c1")

SpecAccess == InitAccess /\ [][NextAccess]_vars

(* Round robin: calls made one after the other for one target over the   *)
(* inventory, while updates change which of its runways are accessible.  *)

InitRoundRobin == InitWith({3}, {StrictThreshold}, {"RoundRobin"})

RoundRobinUpdate ==
    /\ clock < MaxRoundRobinUpdates
    /\ \E runway_id \in RunwayIds, user_success \in BOOLEAN :
           Update("t1", runway_id, TRUE, user_success, 1)
    /\ UNCHANGED <<routingVars, call, nCalls, rrLog, modeSet, proxyVars, serviceVars>>

RoundRobinSelect ==
    /\ nCalls < MaxSelects
    /\ SelectStart("c1", "t1", Inventory)

NextRoundRobin ==
    \/ RoundRobinUpdate
    \/ RoundRobinSelect
    \/ SelectDispatch("c1")
    \/ SelectRoundRobin("c1")
    \/ Return("c1")

SpecRoundRobin == InitRoundRobin /\ [][NextRoundRobin]_vars

(* Latency mode: fully successful updates with response times of 0, 1 or *)
(* 2 s on the runways of one target, and calls over the inventory in two *)
(* orders while the updates go on.                                       *)

InitLatency == InitWith({3}, {DefaultThreshold}, {"Latency"})

LatencyUpdate ==
    /\ clock < MaxLatencyUpdates
    /\ \E runway_id \in RunwayIds, rt \in LatencyTimes :
           Update("t1", runway_id, TRUE, TRUE, rt)
    /\ UNCHANGED <<routingVars, call, nCalls, rrLog, modeSet, proxyVars, serviceVars>>

LatencySelect ==
    /\ nCalls < MaxLatencySelects
    /\ \E runways \in LatencyLists : SelectStart("c1", "t1", runways)

NextLatency ==
    \/ LatencyUpdate
    \/ LatencySelect
    \/ SelectDispatch("c1")
    \/ SelectLatencyStep("c1")
    \/ Return("c1")

SpecLatency == InitLatency /\ [][NextLatency]_vars

(* The validator alone: validate_http applied to one status and body.    *)

InitValidator ==
    /\ InitCore({3}, {DefaultThreshold}, {"Latency"})
    /\ InitService
    /\ \E status \in Statuses, body \in Bodies :
           request = [c \in Callers |->
                         [IdleRequest EXCEPT !.pc = "validate",
                                             !.reply = <<Reply(status, body)>>]]

NextValidator == ValidateCall("c1")

SpecValidator == InitValidator /\ [][NextValidator]_vars

(* The proxy: client requests for one host served one after the other    *)
(* over an inventory of two direct runways and one proxied one, while    *)
(* other tasks update the tracker.                                       *)

InitProxy == InitWith({3}, {DefaultThreshold}, {"FirstAccessible"})

\* what get_all_runways returns: the values of a HashMap, in its order
ProxyInventories == { <<Runway("r3"), Runway("r1"), Runway("r2")>> }

\* what the network does to the forwards of SpecProxy
ForwardOutcomes ==
    { ClientError, NoReply,
      Reply(200, <<"o", "k">>), Reply(200, <<"B", "l", "o", "c", "k", "e", "d">>),
      Reply(301, <<"o", "k">>), Reply(404, <<"o", "k">>) }

\* another task has found a runway to reach the host
ProxyUpdate ==
    /\ clock < MaxProxyClock
    /\ \E runway_id \in RunwayIds : Update("t1", runway_id, TRUE, TRUE, 1)
    /\ UNCHANGED <<routingVars, call, nCalls, rrLog, modeSet, proxyVars, serviceVars>>

ProxyRequest ==
    /\ nCalls < MaxRequests
    /\ \E method \in {"GET", "CONNECT"}, all_runways \in ProxyInventories :
           HandleRequest("c1", method, "t1", all_runways)

ProxyProbe ==
    \E i \in 1..max_concurrent, reached \in BOOLEAN : ProbeComplete("c1", i, reached)

ProxyForward == \E outcome \in ForwardOutcomes : Forward("c1", outcome)

NextProxy ==
    \/ ProxyUpdate
    \/ ProxyRequest
    \/ SelectForRequest("c1")
    \/ SelectDispatch("c1")
    \/ AfterSelect("c1")
    \/ StartChunk("c1")
    \/ ProxyProbe
    \/ JoinChunk("c1")
    \/ ProxyForward
    \/ GetAlternativeRunway("c1")
    \/ FinishRequest("c1")

SpecProxy == InitProxy /\ [][NextProxy]_vars

(* Probing: a request for a host the tracker knows nothing of, over an   *)
(* inventory of three direct and three proxied runways, which makes two  *)
(* chunks of probes; the forward that follows gets a reply.              *)

InitProbe == InitWith({3}, {DefaultThreshold}, {"FirstAccessible"})

\* what get_all_runways returns: the values of a HashMap, in its order
ProbeInventories ==
    { <<Runway("r3"), Runway("r1"), Runway("r5"), Runway("r2"), Runway("r6"), Runway("r4")>>,
      <<Runway("r6"), Runway("r4"), Runway("r5"), Runway("r3"), Runway("r2"), Runway("r1")>> }

\* what the network does to the forwards of SpecProbe: the server replies
ProbeForwardOutcomes ==
    { Reply(200, <<"o", "k">>), Reply(200, <<"B", "l", "o", "c", "k", "e", "d">>) }

\* a request for a host the tracker has no record of
ProbeRequest ==
    /\ ~HasTarget("t1")
    /\ \E all_runways \in ProbeInventories :
           HandleRequest("c1", "GET", "t1", all_runways)

ProbeProbe ==
    \E i \in 1..max_concurrent, reached \in BOOLEAN : ProbeComplete("c1", i, reached)

ProbeForward == \E outcome \in ProbeForwardOutcomes : Forward("c1", outcome)

NextProbe ==
    \/ ProbeRequest
    \/ SelectForRequest("c1")
    \/ AfterSelect("c1")
    \/ StartChunk("c1")
    \/ ProbeProbe
    \/ JoinChunk("c1")
    \/ ProbeForward
    \/ FinishRequest("c1")

SpecProbe == InitProbe /\ [][NextProbe]_vars

(* Two updaters and a reader on one target.                                *)

InitGuard == InitWith({3}, {DefaultThreshold}, {"Latency"})

GuardUpdate ==
    /\ clock + Cardinality({k \in Writers : tasks[k].pc # "idle"}) < MaxGuardedUpdates
    /\ \E k \in Writers, runway_id \in GuardedIds,
          network_success \in BOOLEAN, user_success \in BOOLEAN :
           UpdateEnter(k, "t1", runway_id, network_success, user_success, 1)

GuardRead ==
    \E k \in Readers :
        \/ \E runway_id \in GuardedIds : ReadMetrics(k, "t1", runway_id)
        \/ ReadTargetMetrics(k, "t1")
        \/ ReadAccessibleRunways(k, "t1")

NextGuard ==
    \/ GuardUpdate
    \/ \E k \in Writers : UpdateEntry(k)
    \/ \E k \in Writers : UpdateStore(k)
    \/ \E k \in Writers : UpdateReturn(k)
    \/ GuardRead

SpecGuard == InitGuard /\ [][NextGuard]_vars

(* The tracker alone, keeping the record every update stored.              *)

MaxRepeatUpdates == 5       \* updates of one run of SpecRepeat

InitRepeat == InitWith(WindowChoices, {DefaultThreshold}, {"Latency"})

RepeatUpdate ==
    /\ clock < MaxRepeatUpdates
    /\ \E network_success \in BOOLEAN, user_success \in BOOLEAN, rt \in ResponseTimes :
           /\ Update("t1", "r1", network_success, user_success, rt)
           /\ versions' = [p \in {<<"t1", "r1">>} |->
                              Append(VersionsOf("t1", "r1"),
                                     [record |-> metrics'["t1"]["r1"],
                                      response_time |-> rt])]
    /\ UNCHANGED <<routingVars, call, nCalls, rrLog, modeSet, proxyVars, tasks,
                   monitor, resolver, manager>>

NextRepeat == RepeatUpdate

SpecRepeat == InitRepeat /\ [][NextRepeat]_vars

(* The service: one request handler and the health monitor.               *)

MaxHealthCycles == 2        \* cycles the monitor begins in one run of SpecHealth

InitHealth == InitWith({3}, {DefaultThreshold}, {"FirstAccessible"})

\* what get_all_runways returns, and what get_runway looks the ids up in
HealthInventory == <<Runway("r3"), Runway("r1")>>

\* what the network does to the forwards of SpecHealth
HealthForwardOutcomes ==
    { NoReply, Reply(200, <<"o", "k">>), Reply(200, <<"B", "l", "o", "c", "k", "e", "d">>) }

ElapsedTimes == {1, 2}      \* whole seconds

\* a request for a host the tracker has no record of
HealthRequest ==
    /\ ~HasTarget("t1")
    /\ HandleRequest("c1", "GET", "t1", HealthInventory)

HealthFirstContact ==
    \E i \in request["c1"].in_flight, env \in HealthEnvs :
        ProbeComplete("c1", i, Reaches(request["c1"].chunk[i], env))

HealthForward == \E outcome \in HealthForwardOutcomes : Forward("c1", outcome)

HealthCheck ==
    /\ monitor.running => monitor.cycles < MaxHealthCycles
    /\ HealthLoopCheck

\* the host's interfaces are what they were
HealthBegin ==
    \E order \in Orders(DOMAIN metrics) :
        HealthCycleBegin(order, manager.interface_info)

HealthTarget ==
    \E order \in Orders(IF monitor.targets # <<>> /\ HasTarget(Head(monitor.targets))
                        THEN DOMAIN metrics[Head(monitor.targets)] ELSE {}) :
        HealthTargetBegin(order)

HealthProbeNext ==
    \E env \in HealthEnvs, elapsed \in ElapsedTimes :
        HealthProbe(HealthInventory, env, elapsed)

NextHealth ==
    \/ HealthRequest
    \/ SelectForRequest("c1")
    \/ AfterSelect("c1")
    \/ StartChunk("c1")
    \/ HealthFirstContact
    \/ JoinChunk("c1")
    \/ HealthForward
    \/ GetAlternativeRunway("c1")
    \/ FinishRequest("c1")
    \/ HealthStart
    \/ HealthStop
    \/ HealthCheck
    \/ HealthBegin
    \/ HealthTarget
    \/ HealthProbeNext
    \/ HealthUpdate
    \/ HealthSleep

SpecHealth == InitHealth /\ [][NextHealth]_vars

(* One health-check cycle over a tracker that knows more targets and more   *)
(* failed runways than a cycle looks at.  The tracker starts in the state   *)
(* that the updates listed in CapHistory leave.                            *)

MaxCapCycles == 1           \* cycles the monitor begins in one run of SpecCaps

CapTargets ==
    <<"h01", "h02", "h03", "h04", "h05", "h06", "h07", "h08", "h09", "h10", "h11">>
CapIds == <<"r1", "r2", "r3", "r4", "r5", "r6", "r7", "r8", "r9", "r10">>

\* the updates that bring a fresh record to the state
EventsTo(state) ==
    CASE state = "Inaccessible" ->
             <<<<FALSE, FALSE>>, <<FALSE, FALSE>>, <<FALSE, FALSE>>, <<FALSE, FALSE>>>>
      [] state = "PartiallyAccessible" -> <<<<TRUE, FALSE>>>>
      [] state = "Unknown" -> <<<<FALSE, FALSE>>>>
      [] OTHER -> <<<<TRUE, TRUE>>>>

\* the pairs the tracker knows, in the order they were brought to their
\* state: on h01 six runways Inaccessible and four PartiallyAccessible, on
\* h02 one of each, on every other target one Accessible runway
CapHistory ==
    [i \in 1..6 |-> <<"h01", CapIds[i], "Inaccessible">>]
        \o [i \in 1..4 |-> <<"h01", CapIds[i + 6], "PartiallyAccessible">>]
        \o << <<"h02", "r1", "Inaccessible">>, <<"h02", "r2", "PartiallyAccessible">> >>
        \o [i \in 1..9 |-> <<CapTargets[i + 2], "r1", "Accessible">>]

\* the clock when pair k of the history got its first update
RECURSIVE CapOffset(_)
CapOffset(k) ==
    IF k = 1 THEN 0 ELSE CapOffset(k - 1) + Len(EventsTo(CapHistory[k - 1][3]))

\* update applied to m once for each event, the clock starting at now
RECURSIVE RecordAfter(_, _, _, _)
RecordAfter(m, events, window, now) ==
    IF events = <<>> THEN m
    ELSE RecordAfter(UpdatedMetrics(m, Head(events)[1], Head(events)[2], 1,
                                    window, now),
                     Tail(events), window, now + 1)

CapPairsOf(target) == {k \in DOMAIN CapHistory : CapHistory[k][1] = target}

InitCaps ==
    /\ metrics =
           [t \in Range(CapTargets) |->
               [r \in {CapHistory[k][2] : k \in CapPairsOf(t)} |->
                   LET k == CHOOSE j \in CapPairsOf(t) : CapHistory[j][2] = r
                   IN  RecordAfter(NewMetrics(t, r), EventsTo(CapHistory[k][3]),
                                   3, CapOffset(k))]]
    /\ success_rate_window = 3
    /\ success_rate_threshold = DefaultThreshold
    /\ clock = CapOffset(Len(CapHistory) + 1)
    /\ updates = [p \in {<<CapHistory[k][1], CapHistory[k][2]>> : k \in DOMAIN CapHistory}
                     |-> LET k == CHOOSE j \in DOMAIN CapHistory :
                                     <<CapHistory[j][1], CapHistory[j][2]>> = p
                         IN  EventsTo(CapHistory[k][3])]
    /\ mode = "FirstAccessible"
    /\ round_robin_index = <<>>
    /\ call = [c \in Callers |-> IdleCall]
    /\ nCalls = 0
    /\ rrLog = <<>>
    /\ modeSet = mode
    /\ request = [c \in Callers |-> IdleRequest]
    /\ InitService

\* what get_all_runways holds: the ten runways
CapInventory == [i \in 1..10 |-> Runway(CapIds[i])]

\* s turned left by n places
Rotated(s, n) == [i \in 1..Len(s) |-> s[((i + n - 1) % Len(s)) + 1]]

\* orders in which the tracker's map yields its targets
CapTargetOrders == { CapTargets, Reverse(CapTargets), Rotated(CapTargets, 1) }

\* orders in which a snapshot yields the ids it holds
CapIdOrders(ids) ==
    { SelectSeq(order, LAMBDA id : id \in ids) :
        order \in { CapIds, Reverse(CapIds), Rotated(CapIds, 3) } }

\* what a probe of SpecCaps meets: these runways reach every target, the
\* others are refused the connection
CapReachable == {"r1", "r4", "r7", "r9"}
CapEnvOf(id) == IF id \in CapReachable THEN GoodEnv ELSE [GoodEnv EXCEPT !.connected = FALSE]

CapCheck ==
    /\ monitor.running => monitor.cycles < MaxCapCycles
    /\ HealthLoopCheck

CapBegin ==
    \E order \in CapTargetOrders : HealthCycleBegin(order, manager.interface_info)

CapTarget ==
    \E order \in CapIdOrders(IF monitor.targets # <<>>
                             THEN DOMAIN metrics[Head(monitor.targets)] ELSE {}) :
        HealthTargetBegin(order)

CapProbe ==
    LET list == IF monitor.pc \in {"failed", "partial"} THEN monitor[monitor.pc] ELSE <<>>
    IN  HealthProbe(CapInventory, CapEnvOf(IF list = <<>> THEN "" ELSE Head(list)), 1)

NextCaps ==
    \/ HealthStart
    \/ CapCheck
    \/ CapBegin
    \/ CapTarget
    \/ CapProbe
    \/ HealthUpdate
    \/ HealthSleep

SpecCaps == InitCaps /\ [][NextCaps]_vars

(* discover_runways applied to one configuration.                          *)

MaxDiscoveries == 1         \* discover_runways calls of one run of SpecDiscover

Eth0 == <<"eth0">>
Eth01 == <<"eth0", "1">>        \* the interface named eth0_1
Wlan0 == <<"wlan0">>

InterfaceConfigs ==
    { <<>>, << <<"auto">> >>, <<Eth0>>, <<Eth0, Eth01>>, <<Eth01, Eth0>>, <<Eth0, Eth0>>,
      <<Wlan0, Eth0>> }
InterfacesFound == { {Eth0}, {Eth0, Eth01} }

ProxyP1 == [proxy_type |-> <<"http">>, host |-> <<"p1">>, port |-> 8080]
ProxyP2 == [proxy_type |-> <<"socks5">>, host |-> <<"p1">>, port |-> 1080]
ProxyConfigs == { <<>>, <<ProxyP1>>, <<ProxyP1, ProxyP2>>, <<ProxyP1, ProxyP1>> }

DnsD1 == [host |-> <<"1">>, port |-> 53]
DnsD2 == [host |-> <<"1", "1">>, port |-> 53]     \* the host named 1_1
DnsD3 == [host |-> <<"1">>, port |-> 5353]
DnsConfigs == { <<>>, <<DnsD1>>, <<DnsD1, DnsD2>>, <<DnsD1, DnsD3>> }

InitDiscover ==
    /\ InitCore({3}, {DefaultThreshold}, {"Latency"})
    /\ request = [c \in Callers |-> IdleRequest]
    /\ tasks = [k \in Tasks |-> IdleTask]
    /\ versions = <<>>
    /\ monitor = IdleMonitor
    /\ resolver = IdleResolver
    /\ \E interfaces \in InterfaceConfigs, found \in InterfacesFound,
          proxies \in ProxyConfigs, dns_servers \in DnsConfigs :
           manager = [IdleManager EXCEPT !.interfaces = interfaces,
                                         !.interface_info = found,
                                         !.upstream_proxies = proxies,
                                         !.dns_servers = dns_servers]

Discover ==
    /\ manager.calls < MaxDiscoveries
    /\ \E order \in Orders(manager.interface_info) : DiscoverRunways(order)

NextDiscover == Discover

SpecDiscover == InitDiscover /\ [][NextDiscover]_vars

(* The resolver alone.                                                     *)

MaxDnsTime == 450           \* SpecDns: the clock does not pass this by a tick
MaxDnsCalls == 3            \* resolve calls of one run of SpecDns

DnsDomains == {"a.example", "b.example", "10.0.0.1"}
QueryOutcomes == {"address", "empty", "error", "timeout"}
TickSeconds == 150
LookupSeconds == {0, 1}

InitDns == InitWith({3}, {DefaultThreshold}, {"Latency"})

DnsTime ==
    /\ resolver.now + TickSeconds <= MaxDnsTime
    /\ DnsTick(TickSeconds)

DnsResolve ==
    /\ resolver.calls < MaxDnsCalls
    /\ \E domain \in DnsDomains : ResolveBegin(domain)

DnsQuery ==
    \E outcome \in QueryOutcomes, ip \in Addresses, took \in LookupSeconds :
        ResolveQuery(outcome, ip, took)

NextDns ==
    \/ DnsTime
    \/ DnsResolve
    \/ DnsQuery
    \/ ResolveReturn

SpecDns == InitDns /\ [][NextDns]_vars

(* Round robin under concurrent callers: once the runways of one target    *)
(* have been brought up, several tasks call select_runway for it over the  *)
(* inventory, their steps interleaved in every way.                        *)

MaxConcurrentUpdates == 3   \* updates of one run of SpecConcurrent
MaxConcurrentSelects == 4   \* select_runway calls of one run of SpecConcurrent

Selectors == {"c1", "c2"}

InitConcurrent ==
    /\ metrics = <<>>
    /\ success_rate_window = 3
    /\ success_rate_threshold = DefaultThreshold
    /\ clock = 0
    /\ mode = "RoundRobin"
    /\ round_robin_index = <<>>
    /\ call = [c \in Selectors |-> IdleCall]
    /\ updates = <<>>
    /\ nCalls = 0
    /\ rrLog = <<>>
    /\ modeSet = mode
    /\ request = [c \in Callers |-> IdleRequest]
    /\ InitService

\* the updates are made before the first call, the candidates stay the same
ConcurrentUpdate ==
    /\ clock < MaxConcurrentUpdates
    /\ nCalls = 0
    /\ \E runway_id \in RunwayIds : Update("t1", runway_id, TRUE, TRUE, 1)
    /\ UNCHANGED <<routingVars, call, nCalls, rrLog, modeSet, proxyVars, serviceVars>>

ConcurrentSelect ==
    /\ nCalls < MaxConcurrentSelects
    /\ HasTarget("t1")
    /\ \E c \in Selectors : SelectStart(c, "t1", Inventory)

NextConcurrent ==
    \/ ConcurrentUpdate
    \/ ConcurrentSelect
    \/ \E c \in Selectors : SelectDispatch(c)
    \/ \E c \in Selectors : SelectRoundRobin(c)
    \/ \E c \in Selectors : Return(c)

SpecConcurrent == InitConcurrent /\ [][NextConcurrent]_vars

(* The health monitor alone, over the inventory that discover_runways made *)
(* at startup and a tracker that knows pairs in every state, one of them *)
(* on a runway the inventory does not hold.  The tracker starts in the    *)
(* state that the updates listed in CycleHistory leave.                   *)

MaxCycles == 2              \* cycles the monitor begins in one run of SpecCycle

\* the configuration: two interfaces, one upstream proxy, one DNS server
CycleManager ==
    LET runways == DiscoveredRunways(<<Eth0, Wlan0>>, {Eth0, Wlan0}, <<ProxyP1>>,
                                     <<DnsD1>>)
    IN  [IdleManager EXCEPT !.interfaces = <<Eth0, Wlan0>>,
                            !.interface_info = {Eth0, Wlan0},
                            !.upstream_proxies = <<ProxyP1>>,
                            !.dns_servers = <<DnsD1>>,
                            !.runways = RunwayMap(runways),
                            !.discovered = runways,
                            !.calls = 1]

\* the ids of the four runways discovered, and the id of a runway of an
\* interface that the inventory does not hold
DirectEth0 == <<"direct", "eth0", "1", 0>>
DirectWlan0 == <<"direct", "wlan0", "1", 1>>
ProxyEth0 == <<"proxy", "eth0", "http", "p1", "1", 2>>
ProxyWlan0 == <<"proxy", "wlan0", "http", "p1", "1", 3>>
DirectEth1 == <<"direct", "eth1", "1", 4>>

\* the pairs the tracker knows, in the order they were brought to their state
CycleHistory ==
    << <<"t1", DirectEth0, "Inaccessible">>,
       <<"t1", DirectWlan0, "PartiallyAccessible">>,
       <<"t1", ProxyEth0, "Accessible">>,
       <<"t1", ProxyWlan0, "Unknown">>,
       <<"t1", DirectEth1, "Inaccessible">>,
       <<"t2", ProxyEth0, "Inaccessible">>,
       <<"t2", DirectEth0, "Accessible">> >>

\* the clock when pair k of the history got its first update
RECURSIVE CycleOffset(_)
CycleOffset(k) ==
    IF k = 1 THEN 0 ELSE CycleOffset(k - 1) + Len(EventsTo(CycleHistory[k - 1][3]))

CyclePairsOf(target) == {k \in DOMAIN CycleHistory : CycleHistory[k][1] = target}

InitCycle ==
    /\ metrics =
           [t \in {"t1", "t2"} |->
               [r \in {CycleHistory[k][2] : k \in CyclePairsOf(t)} |->
                   LET k == CHOOSE j \in CyclePairsOf(t) : CycleHistory[j][2] = r
                   IN  RecordAfter(NewMetrics(t, r), EventsTo(CycleHistory[k][3]),
                                   3, CycleOffset(k))]]
    /\ success_rate_window = 3
    /\ success_rate_threshold = DefaultThreshold
    /\ clock = CycleOffset(Len(CycleHistory) + 1)
    /\ updates = [p \in {<<CycleHistory[k][1], CycleHistory[k][2]>> :
                            k \in DOMAIN CycleHistory}
                     |-> LET k == CHOOSE j \in DOMAIN CycleHistory :
                                     <<CycleHistory[j][1], CycleHistory[j][2]>> = p
                         IN  EventsTo(CycleHistory[k][3])]
    /\ mode = "RoundRobin"
    /\ round_robin_index = <<>>
    /\ call = [c \in Callers |-> IdleCall]
    /\ nCalls = 0
    /\ rrLog = <<>>
    /\ modeSet = mode
    /\ request = [c \in Callers |-> IdleRequest]
    /\ tasks = [k \in Tasks |-> IdleTask]
    /\ versions = <<>>
    /\ monitor = IdleMonitor
    /\ resolver = IdleResolver
    /\ manager = CycleManager

\* orders in which the tracker's maps yield their keys
CycleIdOrders(ids) ==
    { SelectSeq(order, LAMBDA id : id \in ids) :
        order \in { <<DirectEth0, DirectWlan0, ProxyEth0, ProxyWlan0, DirectEth1>>,
                    <<DirectEth1, ProxyWlan0, ProxyEth0, DirectWlan0, DirectEth0>> } }

CycleCheck ==
    /\ monitor.running => monitor.cycles < MaxCycles
    /\ HealthLoopCheck

\* the host has both interfaces, or wlan0 is gone
CycleBegin ==
    \E order \in Orders(DOMAIN metrics), found \in {{Eth0, Wlan0}, {Eth0}} :
        HealthCycleBegin(order, found)

CycleTarget ==
    \E order \in CycleIdOrders(IF monitor.targets # <<>>
                               THEN DOMAIN metrics[Head(monitor.targets)] ELSE {}) :
        HealthTargetBegin(order)

\* the interface of the runway that the next probe goes through
NextInterface ==
    LET list == IF monitor.pc \in {"failed", "partial"} THEN monitor[monitor.pc] ELSE <<>>
    IN  IF list = <<>> \/ GetRunway(manager.discovered, Head(list)) = <<>> THEN <<>>
        ELSE GetRunway(manager.discovered, Head(list))[1].interface

\* get_runway looks the id up in the inventory; the probe finds the
\* interface of the runway among those the last refresh found, or not
CycleProbe ==
    \E env \in HealthEnvs :
        /\ env.interface_present = (NextInterface \in manager.interface_info)
        /\ HealthProbe(manager.discovered, env, 1)

NextCycle ==
    \/ HealthStart
    \/ CycleCheck
    \/ CycleBegin
    \/ CycleTarget
    \/ CycleProbe
    \/ HealthUpdate
    \/ HealthSleep

SpecCycle == InitCycle /\ [][NextCycle]_vars

(* The health monitor alone and never stopped, scheduled fairly, over the  *)
(* inventory and the tracker of SpecCycle.  The host keeps its interfaces; *)
(* probes meet anything in the earlier cycles and succeed in the last one. *)

MaxRecoverCycles == 2       \* cycles the monitor begins in one run of SpecRecover

RecoverCheck ==
    /\ monitor.running => monitor.cycles < MaxRecoverCycles
    /\ HealthLoopCheck

RecoverBegin ==
    \E order \in Orders(DOMAIN metrics) : HealthCycleBegin(order, manager.interface_info)

RecoverProbe ==
    \E env \in HealthEnvs :
        /\ env.interface_present
        /\ monitor.cycles = MaxRecoverCycles => env = GoodEnv
        /\ HealthProbe(manager.discovered, env, 1)

NextRecover ==
    \/ HealthStart
    \/ RecoverCheck
    \/ RecoverBegin
    \/ CycleTarget
    \/ RecoverProbe
    \/ HealthUpdate
    \/ HealthSleep

\* the task of the monitor is scheduled whenever it can take a step
SpecRecover == InitCycle /\ [][NextRecover]_vars /\ WF_vars(NextRecover)

(* The tracker's records from their creation on: an updater, a reader    *)
(* making each of the reads, and a caller of select_runway, on two        *)
(* targets with two runways each.                                         *)

MaxLazyUpdates == 2         \* updates entered in one run of SpecLazy
MaxLazySelects == 1         \* select_runway calls of one run of SpecLazy

InitLazy == InitWith({3}, {DefaultThreshold}, {"Latency"})

LazyUpdate ==
    /\ clock + Cardinality({k \in Writers : tasks[k].pc # "idle"}) < MaxLazyUpdates
    /\ \E target \in Targets, runway_id \in GuardedIds, success \in BOOLEAN :
           UpdateEnter("w1", target, runway_id, success, success, 1)

LazyRead ==
    \E k \in Readers :
        \/ \E target \in Targets, runway_id \in GuardedIds :
               ReadMetrics(k, target, runway_id)
        \/ \E target \in Targets : ReadTargetMetrics(k, target)
        \/ \E target \in Targets : ReadAccessibleRunways(k, target)
        \/ \E order \in Orders(DOMAIN metrics) : ReadAllTargets(k, order)

\* get_accessible_runways and get_metrics wait for the guard of the target
LazySelect ==
    /\ nCalls < MaxLazySelects
    /\ \E target \in Targets :
           GuardFree(target) /\ SelectStart("c1", target, Inventory)

LazyLatencyStep == GuardFree(call["c1"].target) /\ SelectLatencyStep("c1")

NextLazy ==
    \/ LazyUpdate
    \/ UpdateEntry("w1")
    \/ UpdateStore("w1")
    \/ UpdateReturn("w1")
    \/ LazyRead
    \/ LazySelect
    \/ SelectDispatch("c1")
    \/ LazyLatencyStep
    \/ Return("c1")

SpecLazy == InitLazy /\ [][NextLazy]_vars

(* select_runway in every mode for two targets that both have runways,   *)
(* while the tracker is updated and the mode is set.                     *)

MaxFrameUpdates == 3        \* updates of one run of SpecFrame
MaxFrameSelects == 2        \* select_runway calls of one run of SpecFrame

InitFrame == InitWith({3}, {DefaultThreshold}, RoutingMode)

FrameUpdate ==
    /\ clock < MaxFrameUpdates
    /\ \E target \in Targets, runway_id \in {"r1", "r2"} :
           Update(target, runway_id, TRUE, TRUE, 1)
    /\ UNCHANGED <<routingVars, call, nCalls, rrLog, modeSet, proxyVars, serviceVars>>

FrameSelect ==
    /\ nCalls < MaxFrameSelects
    /\ \E target \in Targets : SelectStart("c1", target, Inventory)

FrameSetMode == \E m \in RoutingMode : m # mode /\ SetMode(m)

NextFrame ==
    \/ FrameUpdate
    \/ FrameSelect
    \/ FrameSetMode
    \/ SelectDispatch("c1")
    \/ SelectLatencyStep("c1")
    \/ SelectRoundRobin("c1")
    \/ Return("c1")

SpecFrame == InitFrame /\ [][NextFrame]_vars

(* The tracker alone with avg_response_time kept as an f64: the updates of *)
(* one pair, the response times whole seconds.                            *)

MaxEwmaUpdates == 3         \* updates of one run of SpecEwma

InitEwma == InitWith({3}, {DefaultThreshold}, {"Latency"})

\* TargetMetrics::new, line 38: avg_response_time: 0.0
NewMetricsBinary64(target, runway_id) ==
    [NewMetrics(target, runway_id) EXCEPT !.avg_response_time = Binary64Zero]

\* TargetAccessibilityTracker::update on records that keep the average as
\* an f64, one step as Update is
UpdateBinary64(target, runway_id, network_success, user_success, rt) ==
    LET stored == IF HasMetrics(target, runway_id) THEN metrics[target][runway_id]
                  ELSE NewMetricsBinary64(target, runway_id)
    IN  /\ metrics' = Inserted(target, runway_id,
                          UpdatedMetrics(stored, network_success, user_success, rt,
                                         success_rate_window, clock))
        /\ clock' = clock + 1
        /\ updates' = Logged(target, runway_id, <<network_success, user_success>>)
        /\ versions' = [p \in DOMAIN versions \cup {<<target, runway_id>>} |->
                           IF p = <<target, runway_id>>
                           THEN Append(VersionsOf(target, runway_id),
                                       [record |-> metrics'[target][runway_id],
                                        response_time |-> rt])
                           ELSE versions[p]]
        /\ UNCHANGED <<success_rate_window, success_rate_threshold>>

EwmaUpdate ==
    /\ clock < MaxEwmaUpdates
    /\ \E network_success \in BOOLEAN, user_success \in BOOLEAN, rt \in LatencyTimes :
           UpdateBinary64("t1", "r1", network_success, user_success, rt)
    /\ UNCHANGED <<routingVars, call, nCalls, rrLog, modeSet, proxyVars, tasks,
                   monitor, resolver, manager>>

NextEwma == EwmaUpdate

SpecEwma == InitEwma /\ [][NextEwma]_vars

-----------------------------------------------------------------------------
(* Properties of the tracker, checked under SpecTracker *)

AllPairs == Targets \X RunwayIds

\* the stored record of pair p
Rec(p) == metrics[p[1]][p[2]]

\* the record update starts from, and the record it leaves, in a step
Before(p) == StoredOrNew(p[1], p[2])
After(p) == metrics'[p[1]][p[2]]

\* this step is an update of pair p with (network_success, user_success) = (n, u)
UpdateStep(p, n, u) ==
    /\ p \in DOMAIN updates'
    /\ updates'[p] = Append(EventsOf(p[1], p[2]), <<n, u>>)

FullSuccess == <<TRUE, TRUE>>
Failure == <<FALSE, FALSE>>

\* the number of updates at the end of evs that have network_success = false
RECURSIVE TrailingNetworkFailures(_)
TrailingNetworkFailures(evs) ==
    IF evs = <<>> \/ evs[Len(evs)][1] THEN 0
    ELSE 1 + TrailingNetworkFailures(SubSeq(evs, 1, Len(evs) - 1))

\* C1: a full success applied to a pair whose state is Inaccessible makes it
\* Accessible and adds exactly 1 to recovery_count; and from Unknown the
\* updates (T,T),(F,F),(F,F),(F,F),(F,F) end Inaccessible with 4 consecutive
\* failures, a following (T,T) gives Accessible, recovery_count 1 and
\* consecutive_failures 0.
C1_RecoveryCounted ==
    /\ [][\A p \in AllPairs :
             (UpdateStep(p, TRUE, TRUE) /\ Before(p).state = "Inaccessible")
                 => /\ After(p).state = "Accessible"
                    /\ After(p).recovery_count = Before(p).recovery_count + 1]_vars
    /\ [](\A p \in DOMAIN updates :
             /\ updates[p] = <<FullSuccess, Failure, Failure, Failure, Failure>>
                    => Rec(p).state = "Inaccessible" /\ Rec(p).consecutive_failures = 4
             /\ updates[p] = <<FullSuccess, Failure, Failure, Failure, Failure, FullSuccess>>
                    => /\ Rec(p).state = "Accessible"
                       /\ Rec(p).recovery_count = 1
                       /\ Rec(p).consecutive_failures = 0)

\* C2: after more than 3 consecutive updates with network_success = false,
\* whatever their user_success and the state before them, the pair is
\* Inaccessible.
C2_InaccessibleAfterFailures ==
    \A p \in DOMAIN updates :
        TrailingNetworkFailures(updates[p]) > 3 => Rec(p).state = "Inaccessible"

\* C3: after an update with user_success = true, for either value of
\* network_success, consecutive_failures is 0.
C3_UserSuccessResetsFailures ==
    \A p \in DOMAIN updates :
        updates[p][Len(updates[p])][2] => Rec(p).consecutive_failures = 0

\* the next state by the transition table of the tracker
TableState(m, n, u) ==
    IF n /\ u THEN "Accessible"
    ELSE IF n THEN "PartiallyAccessible"
    ELSE IF m.consecutive_failures + 1 > 3 THEN "Inaccessible"
    ELSE m.state

\* C4: one update takes the state to the entry of the transition table for
\* the previous record and the event (n, u), and to nothing else.
C4_TransitionTable ==
    [][\A p \in AllPairs : \A n, u \in BOOLEAN :
          UpdateStep(p, n, u) => After(p).state = TableState(Before(p), n, u)]_vars

\* C5: every record has total_attempts = failure_count + network_success_count
\* and network_success_count = user_success_count + partial_success_count.
C5_CounterAccounting ==
    \A t \in DOMAIN metrics : \A r \in DOMAIN metrics[t] :
        LET m == metrics[t][r]
        IN  /\ m.total_attempts = m.failure_count + m.network_success_count
            /\ m.network_success_count = m.user_success_count + m.partial_success_count

C5_Witness ==
    \E t \in DOMAIN metrics : \E r \in DOMAIN metrics[t] :
        /\ metrics[t][r].user_success_count >= 1
        /\ metrics[t][r].partial_success_count >= 1
        /\ metrics[t][r].failure_count >= 2

\* C6: recent_attempts never holds more than success_rate_window entries.
C6_WindowBounded ==
    \A t \in DOMAIN metrics : \A r \in DOMAIN metrics[t] :
        Len(metrics[t][r].recent_attempts) <= success_rate_window

C6_Witness ==
    \E t \in DOMAIN metrics : \E r \in DOMAIN metrics[t] :
        /\ success_rate_window >= 1
        /\ metrics[t][r].total_attempts > success_rate_window + 1
        /\ Len(metrics[t][r].recent_attempts) = success_rate_window

Min(a, b) == IF a < b THEN a ELSE b

\* C7: recent_attempts is the last min(k, W) user_success values passed for
\* the pair, oldest first, and success_rate is the share of true entries in
\* it, 0 when it is empty.
C7_WindowContents ==
    \A p \in DOMAIN updates :
        LET evs == updates[p]
            k == Len(evs)
            l == Min(k, success_rate_window)
            recent == Rec(p).recent_attempts
            trues == Cardinality({i \in DOMAIN recent : recent[i]})
        IN  /\ recent = [i \in 1..l |-> evs[k - l + i][2]]
            /\ IF recent = <<>>
               THEN Rec(p).success_rate = <<0, 1>>
               ELSE /\ Rec(p).success_rate[1] * Len(recent) = trues * Rec(p).success_rate[2]
                    /\ Rec(p).success_rate[2] > 0

C7_Witness ==
    \E p \in DOMAIN updates :
        /\ success_rate_window = 3
        /\ [i \in DOMAIN updates[p] |-> updates[p][i][2]] = <<TRUE, TRUE, TRUE, FALSE>>
        /\ Rec(p).recent_attempts = <<TRUE, TRUE, FALSE>>
        /\ Rec(p).success_rate = <<2, 3>>

-----------------------------------------------------------------------------
(* Properties of get_accessible_runways, checked under SpecAccess *)

\* the ids get_accessible_runways(target) has to return
AdmittedIds(target) ==
    IF target \notin DOMAIN metrics THEN {}
    ELSE {r \in DOMAIN metrics[target] :
            LET m == metrics[target][r]
            IN  \/ m.state = "Accessible"
                \/ /\ m.state = "PartiallyAccessible"
                   /\ m.success_rate[1] * success_rate_threshold[2]
                          >= success_rate_threshold[1] * m.success_rate[2]}

\* in this step caller c reads the accessible ids of a target
ReadsAccessible(c) == call[c].pc = "idle" /\ call'[c].pc # "idle"

\* C8: get_accessible_runways(target) returns exactly the ids recorded for
\* target that are Accessible, or PartiallyAccessible with success_rate at
\* or above the threshold, each once, and none that is Unknown, Testing or
\* Inaccessible.
C8_AccessibleRunwaysExact ==
    [][\A c \in Callers :
          ReadsAccessible(c) =>
              LET ids == call'[c].accessible_ids
                  target == call'[c].target
              IN  /\ Range(ids) = AdmittedIds(target)
                  /\ Len(ids) = Cardinality(Range(ids))
                  /\ \A i \in DOMAIN ids :
                         metrics[target][ids[i]].state
                             \notin {"Unknown", "Testing", "Inaccessible"}]_vars

\* a read that admits a partial runway whose rate is the threshold and
\* rejects a partial runway whose rate is below it
C8_Witness ==
    \E c \in Callers : \E r, q \in RunwayIds :
        LET k == call[c]
        IN  /\ k.op = "get_accessible_runways" /\ k.pc = "done"
            /\ HasMetrics(k.target, r) /\ HasMetrics(k.target, q)
            /\ Range(k.accessible_ids) = AdmittedIds(k.target)
            /\ metrics[k.target][r].state = "PartiallyAccessible"
            /\ metrics[k.target][r].success_rate = success_rate_threshold
            /\ r \in Range(k.accessible_ids)
            /\ metrics[k.target][q].state = "PartiallyAccessible"
            /\ metrics[k.target][q].success_rate = <<1, 3>>
            /\ q \notin Range(k.accessible_ids)

-----------------------------------------------------------------------------
(* Properties of select_runway, checked under SpecRouting *)

\* C9: select_runway returns None when the accessible set it read is empty
\* or holds the id of no runway of the input; otherwise, in every mode, it
\* returns a runway of the input whose id is in that set.
C9_SelectsAccessibleInput ==
    \A c \in Callers :
        LET k == call[c]
            accessible == Range(k.accessible_ids)
        IN  (k.op = "select_runway" /\ k.pc = "done") =>
                IF accessible = {}
                     \/ \A i \in DOMAIN k.runways : k.runways[i].id \notin accessible
                THEN k.result = <<>>
                ELSE /\ k.result # <<>>
                     /\ k.mode \in RoutingMode
                     /\ \E i \in DOMAIN k.runways : k.runways[i] = k.result[1]
                     /\ k.result[1].id \in accessible

\* a Latency call that passed over an inaccessible first runway of its
\* input and over its first candidate
C9_Witness ==
    \E c \in Callers :
        LET k == call[c]
        IN  /\ k.op = "select_runway" /\ k.pc = "done"
            /\ k.mode = "Latency"
            /\ Len(k.candidates) >= 2
            /\ k.runways[1].id \notin Range(k.accessible_ids)
            /\ k.result = <<k.candidates[2]>>

-----------------------------------------------------------------------------
(* Properties of round robin, checked under SpecRoundRobin *)

\* every round-robin selection made for target used the same candidates
StableCandidates(target) ==
    \A i \in DOMAIN rrLog[target] :
        rrLog[target][i].candidates = rrLog[target][1].candidates

TimesSelected(target, runway) ==
    Cardinality({i \in DOMAIN rrLog[target] : rrLog[target][i].selected = runway})

\* the position of runway in candidates
PositionIn(candidates, runway) ==
    CHOOSE j \in DOMAIN candidates : candidates[j] = runway

\* C10: over the K round-robin calls made for a target while its C
\* candidates stay the same, the i-th call returns candidate ((i-1) mod C)+1
\* of the input order, every candidate is returned floor(K/C) or ceil(K/C)
\* times, and the cursor stored afterwards is K mod C.  Two calls in a row
\* over the same candidates return neighbours of the input order, also
\* after the candidates have changed.
C10_RoundRobinCycle ==
    \A target \in DOMAIN rrLog :
        LET log == rrLog[target]
            K == Len(log)
            candidates == log[1].candidates
            C == Len(candidates)
        IN  /\ StableCandidates(target) =>
                /\ \A i \in 1..K : log[i].selected = candidates[((i - 1) % C) + 1]
                /\ \A j \in 1..C :
                       TimesSelected(target, candidates[j])
                           \in {K \div C, (K + C - 1) \div C}
                /\ CursorOf(target) = K % C
            /\ \A i \in 1..(K - 1) :
                   log[i].candidates = log[i + 1].candidates =>
                       PositionIn(log[i].candidates, log[i + 1].selected)
                           = (PositionIn(log[i].candidates, log[i].selected)
                                  % Len(log[i].candidates)) + 1

\* 3 candidates, 7 calls: the cursor is 1
C10_Witness ==
    \E target \in DOMAIN rrLog :
        /\ StableCandidates(target)
        /\ Len(rrLog[target][1].candidates) = 3
        /\ Len(rrLog[target]) = 7
        /\ CursorOf(target) = 1


-----------------------------------------------------------------------------
(* Properties of the routing modes *)

\* a finished select_runway call that dispatched on mode m
Dispatched(k, m) == k.op = "select_runway" /\ k.pc = "done" /\ k.mode = m

\* the positions of the candidates whose average the call read as positive
PositiveReads(k) ==
    {i \in DOMAIN k.seen : k.seen[i] # <<>> /\ ~FracIsZero(k.seen[i][1])}

\* the first position holding the least positive average the call read
FastestRead(k) ==
    CHOOSE i \in PositiveReads(k) :
        \A j \in PositiveReads(k) :
            \/ FracLess(k.seen[i][1], k.seen[j][1])
            \/ (k.seen[i][1] = k.seen[j][1] /\ i <= j)

\* C11: in Latency mode the call returns, among the candidates whose
\* avg_response_time it read as > 0, the one with the least average, the
\* first of them in input order on a tie; when no candidate's average is
\* > 0 it returns the first candidate.
C11_LatencyMinimum ==
    \A c \in Callers :
        LET k == call[c]
        IN  Dispatched(k, "Latency") =>
                /\ Len(k.seen) = Len(k.candidates)
                /\ k.result = IF PositiveReads(k) = {}
                              THEN <<k.candidates[1]>>
                              ELSE <<k.candidates[FastestRead(k)]>>

\* averages of 2 s, 1 s and 0 s on r1, r2, r3: r2 is returned
C11_Witness ==
    LET k == call["c1"]
    IN  /\ Dispatched(k, "Latency")
        /\ k.candidates = Inventory
        /\ k.seen = << <<Frac(2, 1)>>, <<Frac(1, 1)>>, <<Frac(0, 1)>> >>
        /\ k.result = <<Runway("r2")>>

\* the positions of the input list whose runway is in the accessible set
AccessiblePositions(k) ==
    {i \in DOMAIN k.runways : k.runways[i].id \in Range(k.accessible_ids)}

\* the least element of a non-empty set of numbers
Least(S) == CHOOSE i \in S : \A j \in S : i <= j

\* C12: in FirstAccessible mode the call returns the first runway, in the
\* order of the input list, whose id is in the accessible set.
C12_FirstAccessible ==
    \A c \in Callers :
        LET k == call[c]
        IN  Dispatched(k, "FirstAccessible") =>
                /\ AccessiblePositions(k) # {}
                /\ k.result = <<k.runways[Least(AccessiblePositions(k))]>>

\* r1 is not accessible, r2 and r3 are: r2 is returned; and over the list
\* <<r3, r1>> the call returns r3
C12_Witness ==
    LET k == call["c1"]
    IN  /\ Dispatched(k, "FirstAccessible")
        /\ k.runways = Inventory
        /\ Range(k.accessible_ids) = {"r2", "r3"}
        /\ k.result = <<Runway("r2")>>

\* the branch of select_runway a call is in belongs to the mode it read
FollowsMode(k) ==
    /\ k.pc = "latency" => k.mode = "Latency"
    /\ k.pc = "round_robin" => k.mode = "RoundRobin"
    /\ (k.pc = "done" /\ k.op = "select_runway" /\ k.result # <<>>) =>
           k.mode \in RoutingMode

\* C13: the mode is at every moment the one the last set_mode was given; a
\* select_runway call reads it once, dispatches on the value it read, and
\* keeps that value to its end whatever set_mode does meanwhile.  So a
\* call whose dispatch follows set_mode(m) and precedes the next set_mode
\* runs in mode m.
C13_ModeVisible ==
    [][ /\ mode' = modeSet'
        /\ \A c \in Callers :
               LET k == call[c]
                   l == call'[c]
               IN  /\ (k.pc = "mode" /\ l.pc # "mode") =>
                          (l.mode = modeSet /\ FollowsMode(l))
                   /\ (k.pc \in {"latency", "round_robin"}) =>
                          (l.mode = k.mode /\ FollowsMode(l)) ]_vars

\* a call is in the Latency loop while the mode is already another one
C13_Witness ==
    /\ call["c1"].pc = "latency"
    /\ call["c1"].i > 1
    /\ mode = "RoundRobin"

-----------------------------------------------------------------------------
(* Properties of the validator, checked under SpecValidator *)

\* blocked, forbidden, access denied, error 403, error 404
Markers ==
    { <<"b", "l", "o", "c", "k", "e", "d">>,
      <<"f", "o", "r", "b", "i", "d", "d", "e", "n">>,
      <<"a", "c", "c", "e", "s", "s", " ", "d", "e", "n", "i", "e", "d">>,
      <<"e", "r", "r", "o", "r", " ", "4", "0", "3">>,
      <<"e", "r", "r", "o", "r", " ", "4", "0", "4">> }

\* the letter a is the letter b in either case
SameLetter(a, b) == a = b \/ (a \in DOMAIN LowerOf /\ LowerOf[a] = b)

\* the marker stands in the body after its first i characters, in any case
MarkerAt(body, marker, i) ==
    /\ i + Len(marker) <= Len(body)
    /\ \A j \in 1..Len(marker) : SameLetter(body[i + j], marker[j])

HasMarker(body) ==
    \E marker \in Markers, i \in 0..Len(body) : MarkerAt(body, marker, i)

\* C20: validate_http returns network_success = (200 <= status < 400);
\* user_success is false when network_success is false or the body is
\* empty, and otherwise true exactly when the body holds none of the five
\* markers in any case; so user_success implies network_success.
C20_ValidateHttp ==
    \A c \in Callers :
        LET r == request[c]
        IN  r.pc = "validated" =>
                LET status == r.reply[1].status
                    body == r.reply[1].body
                    network_success == r.verdict[1][1]
                    user_success == r.verdict[1][2]
                IN  /\ network_success = (200 <= status /\ status < 400)
                    /\ (~network_success \/ body = <<>>) => ~user_success
                    /\ (network_success /\ body # <<>>) =>
                           (user_success = ~HasMarker(body))
                    /\ user_success => network_success

\* a redirect whose body says ACCESS DENIED in capitals is no user success
C20_Witness ==
    LET r == request["c1"]
    IN  /\ r.pc = "validated"
        /\ r.reply[1].status = 301
        /\ r.reply[1].body = <<"A", "C", "C", "E", "S", "S", " ", "D", "E", "N", "I", "E", "D">>
        /\ r.verdict = << <<TRUE, FALSE>> >>

-----------------------------------------------------------------------------
(* Properties of the proxy *)

\* the position of the runway called id in a list of runways
PositionOf(id, runways) == CHOOSE i \in DOMAIN runways : runways[i].id = id

\* runway x stands before runway y in the direct-first order of the list:
\* a direct runway before a proxied one, otherwise as the list has them
DirectFirst(runways, x, y) ==
    LET rx == runways[PositionOf(x, runways)]
        ry == runways[PositionOf(y, runways)]
    IN  \/ rx.is_direct /\ ~ry.is_direct
        \/ rx.is_direct = ry.is_direct
             /\ PositionOf(x, runways) < PositionOf(y, runways)

\* the place of runway x in the direct-first order, from 1
Rank(runways, x) ==
    Cardinality({i \in DOMAIN runways : DirectFirst(runways, runways[i].id, x)}) + 1

\* the runways whose probe reported user_success
Reached(r) == {r.probes[i].id : i \in {j \in DOMAIN r.probes : r.probes[j].user_success}}

\* x is the earliest of the reached runways in direct-first order
EarliestReached(r, x) ==
    /\ x \in Reached(r)
    /\ \A y \in Reached(r) \ {x} : DirectFirst(r.all_runways, x, y)
    /\ (x \in ProxiedIds) =>
           \A y \in Reached(r) : ~r.all_runways[PositionOf(y, r.all_runways)].is_direct

\* C14: probes are made only for a request select_runway returned None
\* for; a runway is probed only when every runway of an earlier batch in
\* direct-first order has been probed without success; the first forward
\* goes through the earliest runway in direct-first order whose probe
\* reported user_success, a proxied one only when no direct runway's probe
\* succeeded; and when every runway was probed without success the request
\* is answered 502 with no forward attempt.
C14_ProbeThenForward ==
    \A c \in Callers :
        LET r == request[c]
        IN  /\ r.probes # <<>> => r.origin # "select"
            /\ \A j \in DOMAIN r.probes :
                   LET batch == (Rank(r.all_runways, r.probes[j].id) - 1) \div max_concurrent
                   IN  \A i \in DOMAIN r.all_runways :
                           LET y == r.all_runways[i].id
                           IN  Rank(r.all_runways, y) <= batch * max_concurrent =>
                                   \E k \in 1..(j - 1) :
                                       /\ r.probes[k].id = y
                                       /\ ~r.probes[k].user_success
            /\ (r.origin = "probe" /\ r.attempts # <<>>) =>
                   EarliestReached(r, r.attempts[1].runway)
            /\ (r.origin = "probe" /\ r.attempts = <<>>) =>
                   (r.pc = "forward" /\ EarliestReached(r, r.runway[1].id))
            /\ (r.origin = "" /\ r.pc = "done" /\ r.method # "CONNECT") =>
                   /\ Reached(r) = {}
                   /\ {r.probes[j].id : j \in DOMAIN r.probes}
                          = {r.all_runways[i].id : i \in DOMAIN r.all_runways}
                   /\ r.attempts = <<>>
                   /\ r.responses = <<ProxyReply(502)>>
            /\ (r.origin = "" /\ r.pc # "done") => r.attempts = <<>>

\* the proxied r3 stands first in the inventory and its probe succeeded,
\* so did the probe of the direct r2, r1's failed: the forward goes
\* through r2
C14_Witness ==
    LET r == request["c1"]
    IN  /\ r.origin = "probe"
        /\ r.all_runways[1].id = "r3"
        /\ Reached(r) = {"r2", "r3"}
        /\ r.attempts # <<>>
        /\ r.attempts[1].runway = "r2"

\* the first forward attempt of the request did not get a network success
FirstFailed(r) ==
    /\ r.attempts # <<>>
    /\ ~(r.attempts[1].result.ok /\ r.attempts[1].result.network_success)

\* the accessible runways get_alternative_runway read, the first attempt's
\* runway left out
Others(r) == Range(r.alt_read[1]) \ {r.attempts[1].runway}

\* C15: after a first forward attempt that failed, at the transport layer
\* or with network_success = false, an alternative is looked for; when the
\* accessible set then read holds a runway other than the first one, the
\* request goes on to a second attempt through such a runway and is not
\* answered 502 after one attempt.
C15_RetryThroughAlternative ==
    \A c \in Callers :
        LET r == request[c]
        IN  FirstFailed(r) =>
                /\ (Len(r.attempts) = 1 /\ r.alt_read = <<>>) => r.pc = "alternative"
                /\ (r.alt_read # <<>> /\ Others(r) # {}) =>
                       /\ r.runway[1].id \in Others(r)
                       /\ \/ Len(r.attempts) = 1 /\ r.pc = "forward" /\ r.attempt = 1
                          \/ Len(r.attempts) = 2 /\ r.attempts[2].runway \in Others(r)

\* the first attempt got no network success through a runway that is still
\* accessible, and the second attempt went through another one
C15_Witness ==
    LET r == request["c1"]
    IN  /\ Len(r.attempts) = 2
        /\ r.attempts[1].result.ok
        /\ ~r.attempts[1].result.network_success
        /\ r.attempts[1].runway \in Range(r.alt_read[1])
        /\ r.attempts[2].runway # r.attempts[1].runway

\* C16: a request has at most 2 forward attempts; there is a second one
\* only if the first failed at the transport layer or had network_success
\* = false, and it goes through a runway with another id, one that was in
\* the accessible set read when it was chosen; a first attempt with
\* network_success = true is answered with the upstream response and never
\* retried, also when its user_success is false.
C16_AtMostOneRetry ==
    \A c \in Callers :
        LET r == request[c]
            a == r.attempts
        IN  /\ Len(a) <= 2
            /\ Len(a) = 2 =>
                   /\ FirstFailed(r)
                   /\ a[2].runway # a[1].runway
                   /\ r.alt_read # <<>>
                   /\ a[2].runway \in Range(r.alt_read[1])
            /\ (a # <<>> /\ a[1].result.ok /\ a[1].result.network_success) =>
                   /\ Len(a) = 1
                   /\ r.pc = "done"
                   /\ r.alt_read = <<>>
                   /\ r.responses = <<UpstreamReply(a[1].result.status, a[1].result.body)>>

\* a first attempt that got a 200 whose body says Blocked: network_success
\* without user_success, answered with that reply
C16_Witness ==
    LET r == request["c1"]
    IN  /\ r.pc = "done"
        /\ Len(r.attempts) = 1
        /\ r.attempts[1].outcome.status = 200
        /\ r.attempts[1].result.network_success
        /\ ~r.attempts[1].result.user_success
        /\ r.responses[1].origin = "upstream"

\* a step of the handler of a request
HandlerStep(c) ==
    \/ SelectForRequest(c)
    \/ SelectDispatch(c)
    \/ AfterSelect(c)
    \/ StartChunk(c)
    \/ \E i \in 1..max_concurrent, reached \in BOOLEAN : ProbeComplete(c, i, reached)
    \/ JoinChunk(c)
    \/ \E outcome \in ForwardOutcomes : Forward(c, outcome)
    \/ GetAlternativeRunway(c)

\* attempt i of the request got a network success
Succeeded(r, i) == r.attempts[i].result.ok /\ r.attempts[i].result.network_success

\* C17: a request that is not a CONNECT is never stuck before its response,
\* and it ends with exactly one response: the upstream response of its
\* last forward attempt when that had network_success = true, and
\* otherwise a 502 of the proxy; no response is anything else.
C17_ExactlyOneResponse ==
    \A c \in Callers :
        LET r == request[c]
            n == Len(r.attempts)
        IN  /\ r.pc \notin {"idle", "done"} => (r.responses = <<>> /\ ENABLED HandlerStep(c))
            /\ r.pc = "done" => Len(r.responses) = 1
            /\ (r.pc = "done" /\ r.method # "CONNECT") =>
                   \/ /\ n > 0
                      /\ Succeeded(r, n)
                      /\ r.responses[1] = UpstreamReply(r.attempts[n].result.status,
                                                         r.attempts[n].result.body)
                   \/ /\ \A i \in 1..n : ~Succeeded(r, i)
                      /\ r.responses[1] = ProxyReply(502)

\* the client could not be built for both attempts: the request is
\* answered 502
C17_Witness ==
    LET r == request["c1"]
    IN  /\ r.pc = "done"
        /\ Len(r.attempts) = 2
        /\ ~r.attempts[1].result.ok
        /\ ~r.attempts[2].result.ok
        /\ r.responses = <<ProxyReply(502)>>

\* C18: every forward attempt, whatever its outcome, has made one update
\* of the tracker on (host, runway of the attempt) with the attempt's
\* (network_success, user_success), by the time a retry is chosen or the
\* response is returned.
C18_EveryAttemptRecorded ==
    \A c \in Callers :
        LET r == request[c]
        IN  \A i \in DOMAIN r.attempts :
                LET a == r.attempts[i]
                    events == EventsOf(r.host, a.runway)
                IN  /\ a.update \in DOMAIN events
                    /\ events[a.update] = <<a.result.network_success, a.result.user_success>>

\* C19: the pair written to the tracker for a forwarded response with
\* status s and body b is validate_http(s, b), for every status.
C19_WritesValidatorVerdict ==
    \A c \in Callers :
        LET r == request[c]
        IN  \A i \in DOMAIN r.attempts :
                LET a == r.attempts[i]
                IN  a.outcome.kind = "reply" =>
                        /\ a.update \in DOMAIN EventsOf(r.host, a.runway)
                        /\ EventsOf(r.host, a.runway)[a.update]
                               = ValidateHttp(a.outcome.status, a.outcome.body)

-----------------------------------------------------------------------------
(* Properties of concurrent tracker calls, checked under SpecGuard *)

\* a record that some completed update of the pair stored
Committed(target, runway_id, m) ==
    \E i \in DOMAIN VersionsOf(target, runway_id) :
        VersionsOf(target, runway_id)[i].record = m

CountersAgree(m) ==
    /\ m.total_attempts = m.failure_count + m.network_success_count
    /\ m.network_success_count = m.user_success_count + m.partial_success_count

\* C21: concurrent updates of one (target, runway) pair lose nothing: once K
\* of them are complete and none is under way, the record has total_attempts
\* = K and its counters agree; and get_metrics, get_target_metrics and
\* get_accessible_runways return only what completed updates stored.
C21_UpdateAtomic ==
    /\ \A t \in DOMAIN metrics : \A r \in DOMAIN metrics[t] :
           GuardFree(t) =>
               /\ metrics[t][r].total_attempts = Len(EventsOf(t, r))
               /\ CountersAgree(metrics[t][r])
    /\ \A k \in Readers :
           LET t == tasks[k]
           IN  /\ t.op = "get_metrics" =>
                      \A i \in DOMAIN t.result :
                          Committed(t.target, t.result[i].runway_id, t.result[i])
               /\ t.op = "get_target_metrics" =>
                      \A r \in DOMAIN t.result : Committed(t.target, r, t.result[r])
               /\ t.op = "get_accessible_runways" =>
                      \A i \in DOMAIN t.result :
                          \E j \in DOMAIN VersionsOf(t.target, t.result[i]) :
                              IsAccessibleEntry(
                                  VersionsOf(t.target, t.result[i])[j].record)

\* a third update of the pair is under way after two completed ones, and a
\* read made between the two returned the record the first one stored
C21_Witness ==
    /\ Len(EventsOf("t1", "r1")) = 2
    /\ \E k \in Writers : tasks[k].pc = "store" /\ tasks[k].runway_id = "r1"
    /\ tasks["g1"].op = "get_target_metrics"
    /\ "r1" \in DOMAIN tasks["g1"].result
    /\ tasks["g1"].result["r1"].total_attempts = 1
    /\ metrics["t1"]["r1"].total_attempts = 2

\* the runways of request r whose probe has been started: those that have
\* completed and those in flight
InFlightIds(r) == {r.chunk[i].id : i \in r.in_flight}
ProbedIds(r) == {r.probes[j].id : j \in DOMAIN r.probes}

\* the batch of five, counted from 0, that runway id falls in
BatchOf(r, id) == (Rank(r.all_runways, id) - 1) \div 5

\* C22: while a request is probing, at most 5 probes are in flight, and a
\* probe is in flight only when no probe of a later batch has been started
\* and every probe of the earlier batches has completed.
C22_BatchesOfFive ==
    \A c \in Callers :
        LET r == request[c]
        IN  /\ Cardinality(r.in_flight) <= 5
            /\ InFlightIds(r) \cap ProbedIds(r) = {}
            /\ \A x \in InFlightIds(r) :
                   /\ \A y \in InFlightIds(r) \cup ProbedIds(r) :
                          BatchOf(r, y) <= BatchOf(r, x)
                   /\ \A i \in DOMAIN r.all_runways :
                          BatchOf(r, r.all_runways[i].id) < BatchOf(r, x)
                              => r.all_runways[i].id \in ProbedIds(r)

\* the five probes of the first batch have completed and the probe of the
\* sixth runway is in flight
C22_Witness ==
    LET r == request["c1"]
    IN  /\ Len(r.probes) = 5
        /\ Cardinality(r.in_flight) = 1
        /\ \A x \in InFlightIds(r) : BatchOf(r, x) = 1

-----------------------------------------------------------------------------
(* Properties of repeated updates, checked under SpecRepeat *)

RepeatLog == VersionsOf("t1", "r1")
RepeatEvents == EventsOf("t1", "r1")

\* updates i and i + 1 of the pair were given identical arguments
Repeated(i) ==
    /\ i \in DOMAIN RepeatLog
    /\ i + 1 \in DOMAIN RepeatLog
    /\ RepeatEvents[i] = RepeatEvents[i + 1]
    /\ RepeatLog[i].response_time = RepeatLog[i + 1].response_time

\* the record before update i, after it, and after update i + 1
Zero(i) == IF i = 1 THEN NewMetrics("t1", "r1") ELSE RepeatLog[i - 1].record
Once(i) == RepeatLog[i].record
Twice(i) == RepeatLog[i + 1].record

\* a counter the first application incremented is up by 2 after the second,
\* any other has the value the first application left
CounterRepeats(zero, once, twice) ==
    IF once = zero + 1 THEN twice = zero + 2 ELSE twice = once

\* recent_attempts after the two applications: two more entries, as far as
\* the window allows; the newest ones are the user_success passed
WindowRepeats(i) ==
    /\ Len(Twice(i).recent_attempts)
           = Min(success_rate_window, Len(Zero(i).recent_attempts) + 2)
    /\ \A j \in DOMAIN Twice(i).recent_attempts :
           j > Len(Twice(i).recent_attempts) - 2
               => Twice(i).recent_attempts[j] = RepeatEvents[i][2]

CrossesThreshold(i) ==
    ~RepeatEvents[i][1] /\ Once(i).consecutive_failures = 3

-----------------------------------------------------------------------------
(* Counter accounting, checked under SpecTracker *)

RECURSIVE CountEvents(_, _)
CountEvents(events, ev) ==
    IF events = <<>> THEN 0
    ELSE (IF Head(events) = ev THEN 1 ELSE 0) + CountEvents(Tail(events), ev)

\* C28 as stated: total_attempts = network_success_count + failure_count +
\* partial_success_count, so that after a (true, false) update
\* total_attempts exceeds network_success_count + failure_count.
C28_AsStated ==
    \A t \in DOMAIN metrics : \A r \in DOMAIN metrics[t] :
        LET m == metrics[t][r]
        IN  /\ m.total_attempts
                   = m.network_success_count + m.failure_count + m.partial_success_count
            /\ CountEvents(EventsOf(t, r), <<TRUE, FALSE>>) > 0
                   => m.total_attempts > m.network_success_count + m.failure_count

\* C28: total_attempts = network_success_count + failure_count, a (true,
\* false) update being counted in network_success_count as well as in
\* partial_success_count; so network_success_count + failure_count +
\* partial_success_count exceeds total_attempts by the number of (true,
\* false) updates recorded, and total_attempts never exceeds
\* network_success_count + failure_count.
C28_TotalAttempts ==
    \A t \in DOMAIN metrics : \A r \in DOMAIN metrics[t] :
        LET m == metrics[t][r]
        IN  /\ m.total_attempts = m.network_success_count + m.failure_count
            /\ m.network_success_count + m.failure_count + m.partial_success_count
                   = m.total_attempts + CountEvents(EventsOf(t, r), <<TRUE, FALSE>>)

\* two (true, false) updates, a failure and a full success are recorded
C28_Witness ==
    \E t \in DOMAIN metrics : \E r \in DOMAIN metrics[t] :
        /\ CountEvents(EventsOf(t, r), <<TRUE, FALSE>>) = 2
        /\ metrics[t][r].partial_success_count = 2
        /\ metrics[t][r].failure_count >= 1
        /\ metrics[t][r].user_success_count >= 1

-----------------------------------------------------------------------------
(* Properties of probes and of the health monitor, checked under SpecHealth *)

\* the update that log entry p of a probe names is an update of the probe's
\* pair with the probe's result
ProbeUpdated(target, p) ==
    /\ p.update \in DOMAIN EventsOf(target, p.id)
    /\ EventsOf(target, p.id)[p.update] = <<p.network_success, p.user_success>>

\* no two entries of a probe log name the same update
UpdatesDistinct(target, log) ==
    \A j, k \in DOMAIN log :
        (j # k /\ log[j].id = log[k].id /\ log[j].update # 0)
            => log[j].update # log[k].update

C24_StopEndsLoop ==
    [][(monitor.stopped /\ monitor.pc = "check") => monitor'.pc # "cycle"]_vars

\* a probe that cannot reach the target whatever the connection does
Hindered(p) ==
    \/ ~p.env.resolved
    \/ ~Runway(p.id).is_direct /\ ~p.env.proxy_accessible
    \/ Runway(p.id).is_direct /\ ~p.env.interface_present

\* C26: every probe reports user_success = network_success; a probe whose
\* name resolution failed, whose upstream proxy is flagged inaccessible or
\* whose interface is missing reports (false, false); and every update the
\* service makes, for a first-contact probe, a health probe or a forwarded
\* request, has user_success only with network_success.
C26_UserImpliesNetwork ==
    /\ \A c \in Callers : \A j \in DOMAIN request[c].probes :
           request[c].probes[j].user_success = request[c].probes[j].network_success
    /\ \A j \in DOMAIN monitor.log :
           LET p == monitor.log[j]
           IN  /\ p.user_success = p.network_success
               /\ Hindered(p) => (~p.network_success /\ ~p.user_success)
    /\ \A pair \in DOMAIN updates : \A i \in DOMAIN updates[pair] :
           updates[pair][i][2] => updates[pair][i][1]

\* a forward was blocked, a first-contact probe succeeded, and a health
\* probe that resolved nothing is written
C26_Witness ==
    /\ \E i \in DOMAIN EventsOf("t1", "r1") : EventsOf("t1", "r1")[i] = <<TRUE, FALSE>>
    /\ \E j \in DOMAIN request["c1"].probes : request["c1"].probes[j].user_success
    /\ \E j \in DOMAIN monitor.log :
           /\ ~monitor.log[j].env.resolved
           /\ monitor.log[j].update > 0

-----------------------------------------------------------------------------
(* Properties of one health-check cycle, checked under SpecCaps *)

\* the probes of this cycle made for target from the list of the given kind
ProbesOf(target, list) ==
    SelectSeq(monitor.log, LAMBDA p : p.target = target /\ p.list = list)

\* the probes went to pairwise different runways that the snapshot has in
\* the given state
ProbedFrom(probes, snapshot, state) ==
    /\ \A j \in DOMAIN probes :
           /\ probes[j].id \in DOMAIN snapshot
           /\ snapshot[probes[j].id].state = state
    /\ \A j, k \in DOMAIN probes : probes[j].id = probes[k].id => j = k

\* C25: a health-check cycle looks at no more than 10 targets; for each it
\* probes no more than 5 runways, all Inaccessible in the snapshot taken for
\* the target, and no more than 3, all PartiallyAccessible in that
\* snapshot; so a cycle makes no more than 80 probes and tracker updates.
C25_CycleCaps ==
    /\ Len(monitor.examined) <= 10
    /\ \A i, j \in DOMAIN monitor.examined :
           monitor.examined[i].target = monitor.examined[j].target => i = j
    /\ \A j \in DOMAIN monitor.log :
           \E i \in DOMAIN monitor.examined :
               monitor.examined[i].target = monitor.log[j].target
    /\ \A i \in DOMAIN monitor.examined :
           LET e == monitor.examined[i]
           IN  /\ Len(ProbesOf(e.target, "failed")) <= 5
               /\ ProbedFrom(ProbesOf(e.target, "failed"), e.snapshot, "Inaccessible")
               /\ Len(ProbesOf(e.target, "partial")) <= 3
               /\ ProbedFrom(ProbesOf(e.target, "partial"), e.snapshot,
                             "PartiallyAccessible")
    /\ Len(monitor.log) <= 80
    /\ monitor.cycles > 0 =>
           /\ clock - monitor.began <= 80
           /\ clock - monitor.began
                  = Len(SelectSeq(monitor.log, LAMBDA p : p.update # 0))

\* a cycle is over that looked at ten of the eleven targets and, on h01 with
\* its six Inaccessible and four PartiallyAccessible runways, probed five
\* and three
C25_Witness ==
    /\ monitor.pc = "sleep"
    /\ Len(monitor.examined) = 10
    /\ Cardinality(DOMAIN metrics) = 11
    /\ Len(ProbesOf("h01", "failed")) = 5
    /\ Len(ProbesOf("h01", "partial")) = 3
    /\ \E i \in DOMAIN monitor.examined :
           /\ monitor.examined[i].target = "h01"
           /\ Cardinality({r \in DOMAIN monitor.examined[i].snapshot :
                  monitor.examined[i].snapshot[r].state = "Inaccessible"}) = 6
           /\ Cardinality({r \in DOMAIN monitor.examined[i].snapshot :
                  monitor.examined[i].snapshot[r].state = "PartiallyAccessible"}) = 4

-----------------------------------------------------------------------------
(* Properties of discover_runways, checked under SpecDiscover *)

\* the number of selected interfaces that are in the inventory
SelectedCount ==
    IF <<"auto">> \in Range(manager.interfaces)
    THEN Cardinality(manager.interface_info)
    ELSE Cardinality({i \in DOMAIN manager.interfaces :
                         manager.interfaces[i] \in manager.interface_info})

\* C29: discover_runways returns |I| * |D| runways without an upstream
\* proxy followed by |I| * |P| * |D| runways with one, all ids pairwise
\* different and is_direct true exactly for the runways without a proxy;
\* with no DNS server it returns nothing.
C29_DiscoverRunways ==
    manager.calls > 0 =>
        LET runways == manager.discovered
            nI == SelectedCount
            nP == Len(manager.upstream_proxies)
            nD == Len(manager.dns_servers)
        IN  /\ Len(runways) = nI * nD + nI * nP * nD
            /\ \A i \in DOMAIN runways :
                   /\ runways[i].upstream_proxy = <<>> <=> i <= nI * nD
                   /\ runways[i].is_direct <=> runways[i].upstream_proxy = <<>>
            /\ \A i, j \in DOMAIN runways : runways[i].id = runways[j].id => i = j
            /\ nD = 0 => runways = <<>>

\* two interfaces, two proxies and two servers: four direct runways and
\* eight through a proxy
C29_Witness ==
    /\ manager.calls > 0
    /\ SelectedCount = 2
    /\ Len(manager.upstream_proxies) = 2
    /\ Len(manager.dns_servers) = 2
    /\ Len(manager.discovered) = 12
    /\ manager.discovered[4].is_direct
    /\ ~manager.discovered[5].is_direct

-----------------------------------------------------------------------------
(* Properties of the resolver, checked under SpecDns *)

\* when the call under way began, a successful lookup of its domain had been
\* cached less than 300 seconds before
CachedLately ==
    /\ resolver.domain \in DOMAIN resolver.lookups0
    /\ resolver.lookups0[resolver.domain].time <= resolver.began
    /\ resolver.began - resolver.lookups0[resolver.domain].time < 300

\* the call answered from the cache: an address, no time, no server asked
FromCache ==
    /\ resolver.result.ip # <<>>
    /\ resolver.result.elapsed = 0
    /\ resolver.queried = 0

\* C30: resolve returns no error; for a domain that is not a literal
\* address it answers from the cache, with the address cached and elapsed
\* 0 and without asking a server, exactly when a successful lookup of the
\* domain was cached less than 300 seconds before; and a call that every
\* server failed returns (None, timeout) and leaves the cache as it was,
\* so that the next call asks the servers again.
C30_Resolve ==
    resolver.pc = "done" =>
        /\ resolver.result.status = "ok"
        /\ ~IsIpAddress(resolver.domain) =>
               /\ FromCache <=> CachedLately
               /\ FromCache =>
                      resolver.result.ip = resolver.lookups0[resolver.domain].ip
               /\ resolver.result.ip = <<>> =>
                      /\ resolver.result.elapsed = DnsTimeout
                      /\ resolver.queried = DnsServers
                      /\ resolver.cache = resolver.cache0
                      /\ ~(/\ resolver.domain \in DOMAIN resolver.cache
                           /\ resolver.now - resolver.cache[resolver.domain].time < 300)

\* the third call, for a.example: a lookup of the domain made 300 seconds
\* or more after the start was cached 150 seconds before this call, which
\* is answered from the cache
C30_Witness ==
    /\ resolver.pc = "done"
    /\ resolver.calls = 3
    /\ resolver.domain = "a.example"
    /\ FromCache
    /\ resolver.began - resolver.lookups0["a.example"].time = 150
    /\ resolver.lookups0["a.example"].time >= 300

-----------------------------------------------------------------------------
(* Properties of the CONNECT branch of handle_request, checked under SpecProxy *)

\* the handler c takes a step of a request whose method is CONNECT
ConnectStep(c) ==
    /\ request'[c] # request[c]
    /\ "CONNECT" \in {request[c].method, request'[c].method}

\* C31: a CONNECT request is answered 501 Not Implemented, and the handler's
\* steps for it (taking the request, handing over the response) select no
\* runway, probe nothing, forward nothing and write nothing to the tracker
C31_ConnectNotImplemented ==
    [][\A c \in Callers :
           ConnectStep(c) =>
               /\ request[c].pc = "idle" =>
                      /\ request'[c].pc = "done"
                      /\ request'[c].responses = <<ProxyReply(501)>>
                      /\ request'[c].origin = ""
                      /\ request'[c].probes = <<>>
                      /\ request'[c].attempts = <<>>
                      /\ request'[c].alt_read = <<>>
                      /\ request'[c].runway = <<>>
               /\ request[c].pc # "idle" =>
                      /\ request[c].pc = "done"
                      /\ request'[c] = IdleRequest
               /\ UNCHANGED <<metrics, clock, updates, mode, round_robin_index,
                              rrLog, call, nCalls>>]_vars

\* a CONNECT request has been answered while the tracker knows the host and
\* has an accessible runway for it
C31_Witness ==
    /\ request["c1"].method = "CONNECT"
    /\ request["c1"].pc = "done"
    /\ request["c1"].responses = <<ProxyReply(501)>>
    /\ HasTarget("t1")
    /\ \E id \in DOMAIN metrics["t1"] : IsAccessibleEntry(metrics["t1"][id])

-----------------------------------------------------------------------------
(* Properties of round robin under concurrent callers, checked under       *)
(* SpecConcurrent                                                          *)

\* the calls that have passed select_round_robin and not yet returned
Selected(target) ==
    {c \in DOMAIN call : /\ call[c].pc = "done"
                         /\ call[c].mode = "RoundRobin"
                         /\ call[c].target = target}

\* C32: however the steps of the concurrent select_runway calls for a
\* target interleave, the K calls that have gone through the cursor over
\* the same C candidates consumed the cursor values 0, 1, 2, ... mod C one
\* after the other: any C selections in a row are C different runways,
\* every candidate is selected floor(K/C) or ceil(K/C) times, the cursor is
\* K mod C, and every call that holds a result holds one of the selections
C32_ConcurrentRoundRobin ==
    \A target \in DOMAIN rrLog :
        LET log == rrLog[target]
            K == Len(log)
            candidates == log[1].candidates
            C == Len(candidates)
        IN  /\ \A i \in 1..K : log[i].candidates = candidates
            /\ \A i, j \in 1..K :
                   (i < j /\ j - i < C) => log[i].selected # log[j].selected
            /\ \A r \in Range(candidates) :
                   LET n == Cardinality({i \in 1..K : log[i].selected = r})
                   IN  n * C <= K + C - 1 /\ n * C + C - 1 >= K
            /\ round_robin_index[target] = K % C
            /\ \A c \in Selected(target) :
                   \E i \in 1..K : call[c].result = <<log[i].selected>>
            /\ Cardinality(Selected(target)) <= K

\* four selections over three candidates have been made, the last two by
\* calls that were under way at the same time and hold their results
C32_Witness ==
    /\ "t1" \in DOMAIN rrLog
    /\ Len(rrLog["t1"]) = 4
    /\ Len(rrLog["t1"][1].candidates) = 3
    /\ round_robin_index["t1"] = 1
    /\ Selected("t1") = {"c1", "c2"}
    /\ call["c1"].result # call["c2"].result

-----------------------------------------------------------------------------
(* Properties of the states a record takes, checked under SpecTracker *)

\* the records the tracker stores
StoredRecords ==
    UNION {{metrics[target][id] : id \in DOMAIN metrics[target]} :
              target \in DOMAIN metrics}

\* C33: a stored record in state Inaccessible has more than three
\* consecutive failures, and no stored record is in state Testing
C33_InaccessibleHasFailures ==
    \A m \in StoredRecords :
        /\ m.state = "Inaccessible" => m.consecutive_failures > 3
        /\ m.state # "Testing"
        /\ m.state \in RunwayState

\* a record is Inaccessible, with four failures in a row behind it
C33_Witness ==
    \E m \in StoredRecords :
        /\ m.state = "Inaccessible"
        /\ m.consecutive_failures = 4

-----------------------------------------------------------------------------
(* Properties of the partial result, checked under SpecTracker *)

Partial == <<TRUE, FALSE>>

\* the updates of evs without network success that follow its last full success
RECURSIVE FailuresSinceFullSuccess(_)
FailuresSinceFullSuccess(evs) ==
    IF evs = <<>> \/ evs[Len(evs)] = FullSuccess THEN 0
    ELSE (IF evs[Len(evs)][1] THEN 0 ELSE 1)
             + FailuresSinceFullSuccess(SubSeq(evs, 1, Len(evs) - 1))

\* recent_attempts after one more attempt, for a window of W
Pushed(attempts, user_success, W) ==
    LET all == Append(attempts, user_success)
    IN  IF Len(all) > W THEN SubSeq(all, 2, Len(all)) ELSE all

\* C34: an update (network_success, not user_success) leaves
\* consecutive_failures, failure_count, user_success_count, recovery_count,
\* avg_response_time, last_success_time and last_failure_time as they were
\* and changes total_attempts, network_success_count, partial_success_count,
\* recent_attempts, success_rate and state only; so after every update
\* consecutive_failures counts the updates without network success since
\* the last full success, partial results between them not ending the
\* streak, and a failure that takes that count past 3 gives Inaccessible
C34_PartialKeepsStreak ==
    [][\A p \in AllPairs :
          /\ UpdateStep(p, TRUE, FALSE) =>
                 /\ After(p).consecutive_failures = Before(p).consecutive_failures
                 /\ After(p).failure_count = Before(p).failure_count
                 /\ After(p).user_success_count = Before(p).user_success_count
                 /\ After(p).recovery_count = Before(p).recovery_count
                 /\ After(p).avg_response_time = Before(p).avg_response_time
                 /\ After(p).last_success_time = Before(p).last_success_time
                 /\ After(p).last_failure_time = Before(p).last_failure_time
                 /\ After(p).target = Before(p).target
                 /\ After(p).runway_id = Before(p).runway_id
                 /\ After(p).total_attempts = Before(p).total_attempts + 1
                 /\ After(p).network_success_count = Before(p).network_success_count + 1
                 /\ After(p).partial_success_count = Before(p).partial_success_count + 1
                 /\ After(p).recent_attempts =
                        Pushed(Before(p).recent_attempts, FALSE, success_rate_window)
                 /\ After(p).state = "PartiallyAccessible"
          /\ \A n, u \in BOOLEAN :
                 UpdateStep(p, n, u) =>
                     /\ After(p).consecutive_failures =
                            FailuresSinceFullSuccess(updates'[p])
                     /\ (<<n, u>> = Failure /\ After(p).consecutive_failures > 3)
                            => After(p).state = "Inaccessible"]_vars

\* two failures, a partial result, two failures: the fourth failure makes
\* the record Inaccessible although a partial result lies between them
C34_Witness ==
    /\ <<"t1", "r1">> \in DOMAIN updates
    /\ updates[<<"t1", "r1">>] = <<Failure, Failure, Partial, Failure, Failure>>
    /\ metrics["t1"]["r1"].state = "Inaccessible"
    /\ metrics["t1"]["r1"].consecutive_failures = 4
    /\ metrics["t1"]["r1"].partial_success_count = 1

-----------------------------------------------------------------------------
(* Properties of what a health-check cycle touches, checked under SpecCycle *)

\* the state of the snapshot that the list of a probe is made of
ListState(list) == IF list = "failed" THEN "Inaccessible" ELSE "PartiallyAccessible"

\* the probes that log holds of the pair
ProbesOfPair(log, target, id) ==
    {j \in DOMAIN log : log[j].target = target /\ log[j].id = id}

\* C35: in every step of the monitor, the probes of the cycle under way
\* went to pairs that the snapshot taken for their target has as
\* Inaccessible or PartiallyAccessible and whose runway the inventory
\* holds, each pair once; the tracker is written for the pair probed last
\* and for no other, so a pair the snapshot has as Accessible or Unknown is
\* not probed and its record stays what the snapshot holds; and the
\* inventory's runways, the routing mode and the cursors stay as they are
C35_CycleFrame ==
    [][/\ manager'.runways = manager.runways
       /\ mode' = mode
       /\ round_robin_index' = round_robin_index
       /\ \A j \in DOMAIN monitor'.log :
              LET p == monitor'.log[j]
              IN  /\ \E i \in DOMAIN monitor'.examined :
                         LET e == monitor'.examined[i]
                         IN  /\ e.target = p.target
                             /\ p.id \in DOMAIN e.snapshot
                             /\ e.snapshot[p.id].state = ListState(p.list)
                  /\ p.id \in DOMAIN manager.runways
                  /\ ProbesOfPair(monitor'.log, p.target, p.id) = {j}
       /\ \A target \in DOMAIN metrics : \A id \in DOMAIN metrics[target] :
              (metrics'[target][id] # metrics[target][id]
                   \/ updates'[<<target, id>>] # updates[<<target, id>>]) =>
                  LET p == monitor'.log[Len(monitor'.log)]
                  IN  /\ monitor'.log # <<>>
                      /\ <<p.target, p.id>> = <<target, id>>
                      /\ p.update = Len(updates'[<<target, id>>])
                      /\ p.update = Len(updates[<<target, id>>]) + 1
       /\ DOMAIN metrics' = DOMAIN metrics
       /\ \A target \in DOMAIN metrics : DOMAIN metrics'[target] = DOMAIN metrics[target]
       /\ \A i \in DOMAIN monitor'.examined :
              LET e == monitor'.examined[i]
              IN  \A id \in DOMAIN e.snapshot :
                      e.snapshot[id].state \in {"Accessible", "Unknown"} =>
                          /\ ProbesOfPair(monitor'.log, e.target, id) = {}
                          /\ metrics'[e.target][id] = e.snapshot[id]]_vars

\* a cycle is over in which wlan0 was found gone: it probed and updated the
\* Inaccessible and the PartiallyAccessible runway of t1 that the inventory
\* holds and the Inaccessible one of t2, passed over the runway the
\* inventory lacks, and left the Accessible and the Unknown one alone
C35_Witness ==
    /\ monitor.pc = "sleep"
    /\ monitor.cycles = 1
    /\ manager.interface_info = {Eth0}
    /\ Len(monitor.log) = 3
    /\ ProbesOfPair(monitor.log, "t1", DirectEth0) # {}
    /\ ProbesOfPair(monitor.log, "t1", DirectWlan0) # {}
    /\ ProbesOfPair(monitor.log, "t2", ProxyEth0) # {}
    /\ \A j \in DOMAIN monitor.log : monitor.log[j].update # 0
    /\ metrics["t1"][DirectEth1].state = "Inaccessible"
    /\ metrics["t1"][ProxyEth0].state = "Accessible"
    /\ metrics["t1"][ProxyWlan0].state = "Unknown"
    /\ metrics["t1"][DirectEth0].state = "Accessible"

-----------------------------------------------------------------------------
(* Recovery by the health monitor, checked under SpecRecover *)

\* the pairs of a target the tracker may know and a runway of the inventory
InventoryPairs == {"t1", "t2"} \X DOMAIN CycleManager.runways

IsInaccessible(p) ==
    HasMetrics(p[1], p[2]) /\ metrics[p[1]][p[2]].state = "Inaccessible"

\* the tracker holds no more targets and the target no more Inaccessible
\* runways than a cycle looks at
WithinCaps(target) ==
    /\ Cardinality(DOMAIN metrics) <= max_targets_per_cycle
    /\ HasTarget(target) =>
           Cardinality({id \in DOMAIN metrics[target] :
                            metrics[target][id].state = "Inaccessible"})
               <= max_failed_per_target

\* the pair is Accessible and get_accessible_runways returns its runway,
\* in whatever order the map is iterated
IsReturned(p) ==
    /\ HasMetrics(p[1], p[2])
    /\ metrics[p[1]][p[2]].state = "Accessible"
    /\ \A order \in CycleIdOrders(DOMAIN metrics[p[1]]) :
           p[2] \in Range(AccessibleRunways(p[1], order))

\* C36: with no more than 10 targets and no more than 5 Inaccessible
\* runways of the target, an Inaccessible pair on a runway of the inventory
\* is eventually Accessible and returned by get_accessible_runways, the
\* monitor running its cycles and the probes succeeding from some cycle on
C36_EventualRecovery ==
    \A p \in InventoryPairs :
        (IsInaccessible(p) /\ WithinCaps(p[1]) /\ p[2] \in DOMAIN manager.runways)
            ~> IsReturned(p)

\* the probe of the first cycle failed, that of the second made the pair
\* Accessible; the Inaccessible pair on the runway that the inventory lacks
\* is where it was
C36_Witness ==
    /\ monitor.cycles = 2
    /\ updates[<<"t1", DirectEth0>>] =
           <<Failure, Failure, Failure, Failure, Failure, FullSuccess>>
    /\ IsReturned(<<"t1", DirectEth0>>)
    /\ metrics["t1"][DirectEth0].recovery_count = 0
    /\ IsInaccessible(<<"t1", DirectEth1>>)

-----------------------------------------------------------------------------
(* Properties of the lifetime of the tracker's records, checked under SpecLazy *)

\* the step is one of a read: of the reader, or of the select_runway call
ReadStep ==
    \/ \E k \in Readers : tasks'[k] # tasks[k]
    \/ call' # call

\* what get_all_targets returned to task k last, if that was its last read
TargetsRead(k, t) ==
    IF t[k].op = "get_all_targets" THEN Range(t[k].result) ELSE {}

\* C37: for a target no update is working on, a record of (target, runway)
\* is stored iff updates have been applied to the pair, as many as its
\* total_attempts says, at least 1, and a target is stored iff it has a
\* record; a step of get_metrics, get_target_metrics,
\* get_accessible_runways, get_all_targets or select_runway leaves the
\* tracker as it is; no step removes a target or a record, so what
\* get_all_targets returns only grows
C37_LazyAndLasting ==
    [][/\ \A target \in Targets :
              GuardFree(target)' =>
                  /\ \A id \in RunwayIds :
                         /\ (target \in DOMAIN metrics' /\ id \in DOMAIN metrics'[target])
                                <=> (<<target, id>> \in DOMAIN updates')
                         /\ <<target, id>> \in DOMAIN updates' =>
                                /\ metrics'[target][id].total_attempts
                                       = Len(updates'[<<target, id>>])
                                /\ metrics'[target][id].total_attempts >= 1
                  /\ target \in DOMAIN metrics' => DOMAIN metrics'[target] # {}
       /\ ReadStep => metrics' = metrics
       /\ DOMAIN metrics \subseteq DOMAIN metrics'
       /\ \A target \in DOMAIN metrics :
              DOMAIN metrics[target] \subseteq DOMAIN metrics'[target]
       /\ \A k \in Readers :
              /\ TargetsRead(k, tasks') \subseteq DOMAIN metrics'
              /\ tasks'[k].op = "get_all_targets" =>
                     TargetsRead(k, tasks) \subseteq TargetsRead(k, tasks')]_vars

\* both targets are stored after one update each, the reader has asked for
\* the targets since, and select_runway has returned for a target of which
\* runway r2 was never updated and has no record
C37_Witness ==
    /\ DOMAIN metrics = {"t1", "t2"}
    /\ DOMAIN updates = {<<"t1", "r1">>, <<"t2", "r1">>}
    /\ \A target \in Targets :
           /\ DOMAIN metrics[target] = {"r1"}
           /\ metrics[target]["r1"].total_attempts = 1
    /\ \A k \in Writers : tasks[k].pc = "idle"
    /\ tasks["g1"].op = "get_all_targets"
    /\ Range(tasks["g1"].result) = {"t1", "t2"}
    /\ call["c1"].op = "select_runway"
    /\ call["c1"].pc = "done"

-----------------------------------------------------------------------------
(* Properties of what select_runway writes, checked under SpecFrame *)

\* the step is one of the select_runway call of caller c
SelectRunwayStep(c) ==
    /\ call'[c] # call[c]
    /\ call'[c].op = "select_runway"

\* C38: a step of select_runway leaves the metrics and the mode as they
\* are; it leaves the cursors as they are unless the call read the mode
\* RoundRobin and returns a runway, and then the cursor of every target
\* other than the requested one is as it was
C38_SelectFrame ==
    [][\A c \in Callers :
           SelectRunwayStep(c) =>
               /\ metrics' = metrics
               /\ mode' = mode
               /\ UNCHANGED <<success_rate_window, success_rate_threshold, clock>>
               /\ round_robin_index' # round_robin_index =>
                      /\ call'[c].mode = "RoundRobin"
                      /\ call'[c].result # <<>>
                      /\ DOMAIN round_robin_index' =
                             DOMAIN round_robin_index \cup {call[c].target}
                      /\ \A t \in DOMAIN round_robin_index :
                             t # call[c].target =>
                                 round_robin_index'[t] = round_robin_index[t]
               /\ call'[c].mode \in {"Latency", "FirstAccessible"} =>
                      round_robin_index' = round_robin_index]_vars

\* a round-robin call for t2 has returned a runway and written the cursor
\* of t2 while t1 has a cursor that is not 0
C38_Witness ==
    /\ call["c1"].op = "select_runway"
    /\ call["c1"].pc = "done"
    /\ call["c1"].mode = "RoundRobin"
    /\ call["c1"].target = "t2"
    /\ call["c1"].result # <<>>
    /\ DOMAIN round_robin_index = {"t1", "t2"}
    /\ round_robin_index["t1"] = 1
    /\ round_robin_index["t2"] = 0

-----------------------------------------------------------------------------
(* Properties of the extent of the probing, checked under SpecProbe *)

InventoryIds(r) == {r.all_runways[i].id : i \in DOMAIN r.all_runways}

\* the batches of request r that hold a probe that reported user_success
HitBatches(r) == {BatchOf(r, x) : x \in Reached(r)}

\* runway x is of a batch up to and including the first one of HitBatches
UpToFirstHit(r, x) == \A b \in HitBatches(r) : BatchOf(r, x) <= b

\* test_all_runways has returned to the request
ProbingOver(r) ==
    \/ r.origin = "probe"
    \/ r.pc = "done" /\ r.origin = "" /\ r.method # "CONNECT"

\* C39: no runway is probed twice by a request; no probe is started or
\* completed, and no record of the target written, for a runway of a batch
\* after the first batch in which a probe reported user_success; once
\* test_all_runways has returned, the runways probed are those of the
\* batches up to and including that batch, all of them when there is none
C39_ProbesUpToFirstHit ==
    \A c \in Callers :
        LET r == request[c]
        IN  /\ \A i, j \in DOMAIN r.probes :
                   r.probes[i].id = r.probes[j].id => i = j
            /\ \A x \in ProbedIds(r) \cup InFlightIds(r) : UpToFirstHit(r, x)
            /\ \A x \in InventoryIds(r) :
                   ~UpToFirstHit(r, x) =>
                       /\ <<r.host, x>> \notin DOMAIN updates
                       /\ HasTarget(r.host) => x \notin DOMAIN metrics[r.host]
            /\ ProbingOver(r) =>
                   ProbedIds(r) = {x \in InventoryIds(r) : UpToFirstHit(r, x)}

\* a probe of the first batch reported user_success, all five of the batch
\* were probed, the request was forwarded and answered, and the runway of
\* the second batch has no record
C39_Witness ==
    LET r == request["c1"]
    IN  /\ r.pc = "done"
        /\ r.origin = "probe"
        /\ HitBatches(r) = {0}
        /\ Cardinality(ProbedIds(r)) = 5
        /\ Cardinality(Reached(r)) = 2
        /\ \E x \in InventoryIds(r) :
               /\ BatchOf(r, x) = 1
               /\ x \notin DOMAIN metrics["t1"]

-----------------------------------------------------------------------------
(* Properties of the average response time, checked under SpecEwma *)

EwmaLog == VersionsOf("t1", "r1")

\* avg_response_time before update j of the pair and after it
AvgBefore(j) ==
    IF j = 1 THEN Binary64Zero ELSE EwmaLog[j - 1].record.avg_response_time
AvgAfter(j) == EwmaLog[j].record.avg_response_time

\* update j of the pair changed the average as a full success does, by the
\* operations of f64, or not at all when it was not a full success
EwmaRule(j) ==
    LET seconds == AsSecsF64(EwmaLog[j].response_time)
    IN  AvgAfter(j) =
            IF EventsOf("t1", "r1")[j] = FullSuccess
            THEN IF AvgBefore(j) = Binary64Zero THEN seconds
                 ELSE Binary64Sum(Binary64Product(AvgBefore(j), Binary64Of(7, 10)),
                                  Binary64Product(seconds, Binary64Of(3, 10)))
            ELSE AvgBefore(j)

\* the first two updates of the pair were full successes of 1 s and of 2 s
OneThenTwoSeconds ==
    /\ Len(EwmaLog) >= 2
    /\ \A j \in 1..2 : EventsOf("t1", "r1")[j] = FullSuccess
    /\ EwmaLog[1].response_time = 1
    /\ EwmaLog[2].response_time = 2

\* 0x1.4ccccccccccccp+0, which prints as 1.2999999999999998
JustBelowThirteenTenths ==
    <<0, 1023, DigitBits(<<4, 12, 12, 12, 12, 12, 12, 12, 12, 12, 12, 12, 12>>, 4)>>

\* the claim of C40 as the specification states it: after full successes of
\* 1 s and of 2 s the average is 1.3
C40_AsStated ==
    /\ \A j \in DOMAIN EwmaLog : EwmaRule(j)
    /\ OneThenTwoSeconds =>
           /\ AvgAfter(1) = Binary64Of(1, 1)
           /\ AvgAfter(2) = Binary64Of(13, 10)

\* C40: avg_response_time changes only on a full success: from 0.0 it
\* becomes rt, otherwise the f64 sum of the f64 products avg * 0.7 and
\* rt * 0.3; a partial result and a failure leave it as it is.  From empty
\* metrics, full successes of 1 s and then 2 s give 1.0 and then
\* 1.2999999999999998, the f64 next below the f64 nearest to 1.3.
C40_EwmaRounded ==
    /\ \A j \in DOMAIN EwmaLog : EwmaRule(j)
    /\ OneThenTwoSeconds =>
           /\ AvgAfter(1) = Binary64Of(1, 1)
           /\ AvgAfter(2) = JustBelowThirteenTenths
           /\ AvgAfter(2)[2] = Binary64Of(13, 10)[2]
           /\ BitsSum(Significand(AvgAfter(2)), <<1>>)
                  = Significand(Binary64Of(13, 10))

\* full successes of 1 s and of 2 s were followed by an update that was not
\* a full success and left the average of the second
C40_Witness ==
    /\ Len(EwmaLog) = 3
    /\ OneThenTwoSeconds
    /\ ~EventsOf("t1", "r1")[3] = FullSuccess
    /\ metrics["t1"]["r1"].avg_response_time = JustBelowThirteenTenths

=============================================================================
